---- MODULE Spec2Model ----
(***************************************************************************)
(* Model of the protofolio AsyncAPI document validator                     *)
(* (protofolio/src/validation/validator.rs, validation/bindings.rs,        *)
(* protocol/mod.rs).                                                       *)
(*                                                                         *)
(* Strings that the code only compares are TLA+ strings.  Reference paths, *)
(* which the code takes apart (starts_with, strip_prefix, split), are      *)
(* sequences of the segments between "/" characters: the string            *)
(* "#/channels/a/messages/m" is <<"#","channels","a","messages","m">>.     *)
(* Splitting at "/" is a bijection between strings and non-empty sequences *)
(* of "/"-free segments, so the string operations are computed on the      *)
(* segments exactly.  Map keys in the bounded documents contain no "/".    *)
(*                                                                         *)
(* Option<T> is a sequence of length at most one.  HashMap and HashSet     *)
(* iteration order is unspecified: validate_spec takes the iteration       *)
(* orders as an argument and the Validate action chooses them freely.      *)
(*                                                                         *)
(* validator.rs 269 hands the channel's ChannelBindingsOrRef to            *)
(* validate_channel_bindings, which takes a serde_json::Value.  For inline *)
(* bindings the value is the wrapped JSON value.  For a reference the      *)
(* source does not determine the value: ref_bindings is "skipped" when     *)
(* only inline bindings reach the check and "serialized" when a reference  *)
(* reaches it as the object {"$ref": path} it serializes to.  It is chosen *)
(* freely at the start and never changes.                                  *)
(***************************************************************************)
EXTENDS Integers, Sequences, FiniteSets, TLC

VARIABLES doc, pc, result, ref_bindings, builder, built, calls, discarded,
          SCHEMA_CACHE, thread, hist, conv

\* the builder, what its terminal call returned, the number of chained calls
\* and the <<channel, message>> names of the messages a later call has removed
builder_vars == <<builder, built, calls, discarded>>

\* the schema cache, the threads calling generate_schema, and the record of
\* what has happened to the cache
cache_vars == <<SCHEMA_CACHE, thread, hist>>

\* a conversion at hand (an MqttQos conversion or a codec round trip)
conv_vars == <<conv>>

vars == <<doc, pc, result, ref_bindings, builder, built, calls, discarded,
          SCHEMA_CACHE, thread, hist, conv>>

(***************************************************************************)
(* Option<T>                                                               *)
(***************************************************************************)
None == <<>>

Some(x) == <<x>>

IsSome(o) == o # <<>>

Unwrap(o) == o[1]

(***************************************************************************)
(* Program constants                                                       *)
(***************************************************************************)
ASYNCAPI_VERSION == "3.0.0"

NATS_PROTOCOL == "nats"

KAFKA_PROTOCOL == "kafka"

MQTT_PROTOCOL == "mqtt"

\* "#/channels/" and "#/components/messages/" as segments; the trailing "/"
\* of the literal is the requirement that a further segment follows.
ChannelsPrefix == <<"#", "channels">>

ComponentsMessagesPrefix == <<"#", "components", "messages">>

(***************************************************************************)
(* String operations on paths                                              *)
(***************************************************************************)
\* str::starts_with(prefix) for a prefix literal ending in "/"
starts_with(path, prefix) ==
    /\ Len(path) > Len(prefix)
    /\ SubSeq(path, 1, Len(prefix)) = prefix

\* str::strip_prefix(prefix).unwrap_or(""): the segments after the prefix
strip_prefix(path, prefix) ==
    IF starts_with(path, prefix)
    THEN SubSeq(path, Len(prefix) + 1, Len(path))
    ELSE <<"">>

\* str::split("/messages/"): the separator matches an interior segment
\* "messages" together with the "/" on both sides; matches are taken left to
\* right and do not overlap, so the segment right after a match cannot match.
RECURSIVE split_messages(_, _, _)
split_messages(rest, i, from) ==
    IF i >= Len(rest)
    THEN <<SubSeq(rest, from, Len(rest))>>
    ELSE IF i > from /\ rest[i] = "messages"
         THEN <<SubSeq(rest, from, i - 1)>> \o split_messages(rest, i + 2, i + 1)
         ELSE split_messages(rest, i + 1, from)

\* HashMap::contains_key / HashSet::contains for a key given as segments: a
\* key of several segments contains "/" and equals no key of the documents.
contains_key(keys, segs) == Len(segs) = 1 /\ segs[1] \in keys

(***************************************************************************)
(* JSON values (serde_json::Value)                                         *)
(***************************************************************************)
JsonNull == [t |-> "null", o |-> <<>>]

JsonString == [t |-> "string", o |-> <<>>]

\* an object with the given keys, whatever their values
JsonObject(keys) == [t |-> "object", o |-> [k \in keys |-> JsonString]]

\* an object given as a map from keys to JSON values, and scalars
JsonObj(f) == [t |-> "object", o |-> f]

JsonStr(s) == [t |-> "string", o |-> <<>>, s |-> s]

JsonNum(n) == [t |-> "number", o |-> <<>>, n |-> n]

JsonBool(b) == [t |-> "bool", o |-> <<>>, b |-> b]

is_null(v) == v.t = "null"

as_object(v) == IF v.t = "object" THEN Some(v.o) ELSE None

(***************************************************************************)
(* Results: Ok(()) or Err(ValidationError); arg holds the strings the      *)
(* error value is built from.                                              *)
(***************************************************************************)
Ok == [kind |-> "Ok", arg |-> <<>>]

Err(kind, arg) == [kind |-> kind, arg |-> arg]

(***************************************************************************)
(* protocol::validate_protocol                                             *)
(***************************************************************************)
validate_protocol(protocol) ==
    IF protocol = NATS_PROTOCOL THEN Ok
    ELSE IF protocol = KAFKA_PROTOCOL THEN Ok
    ELSE IF protocol = MQTT_PROTOCOL THEN Ok
    ELSE Err("UnsupportedProtocol",
             <<protocol, NATS_PROTOCOL, KAFKA_PROTOCOL, MQTT_PROTOCOL>>)

(***************************************************************************)
(* validation::bindings                                                    *)
(***************************************************************************)
RECURSIVE first_server_protocol(_, _, _)
first_server_protocol(servers, spec_servers, i) ==
    IF i > Len(servers) THEN None
    ELSE IF servers[i] \in DOMAIN spec_servers
         THEN Some(spec_servers[servers[i]].protocol)
         ELSE first_server_protocol(servers, spec_servers, i + 1)

\* mutant: the servers are searched from the end of the list
get_channel_protocol_last(channel, spec) ==
    IF IsSome(channel.servers) /\ IsSome(spec.servers)
    THEN LET servers == Unwrap(channel.servers)
         IN  first_server_protocol([i \in 1..Len(servers) |->
                                       servers[Len(servers) + 1 - i]],
                                   Unwrap(spec.servers), 1)
    ELSE None

get_channel_protocol(channel, spec) ==
    IF IsSome(channel.servers) /\ IsSome(spec.servers)
    THEN first_server_protocol(Unwrap(channel.servers), Unwrap(spec.servers), 1)
    ELSE None

\* The value handed to validate_channel_bindings (validator.rs 269 passes the
\* ChannelBindingsOrRef where a JSON value is expected): inline bindings are
\* the JSON value itself; a reference is either not handed on at all or is
\* the object {"$ref": path} that the untagged enum serializes to.
bindings_value(b) ==
    IF b.tag = "Bindings" THEN Some(b.value)
    ELSE IF ref_bindings = "serialized" THEN Some(JsonObject({"$ref"}))
    ELSE None

has_key(bindings, key) ==
    IsSome(as_object(bindings)) /\ key \in DOMAIN Unwrap(as_object(bindings))

\* mutant: bindings of a known protocol only have to be an object
validate_channel_bindings_object_only(protocol, bindings, channel_name) ==
    IF protocol \in {"kafka", "mqtt", "nats"} /\ ~IsSome(as_object(bindings))
    THEN Err("InvalidSchema", <<"bindings", channel_name, protocol>>)
    ELSE Ok

validate_channel_bindings(protocol, bindings, channel_name) ==
    IF protocol = "kafka"
    THEN IF ~has_key(bindings, "kafka")
         THEN Err("InvalidSchema", <<"bindings", channel_name, "kafka">>)
         ELSE Ok
    ELSE IF protocol = "mqtt"
    THEN IF ~has_key(bindings, "mqtt")
         THEN Err("InvalidSchema", <<"bindings", channel_name, "mqtt">>)
         ELSE Ok
    ELSE IF protocol = "nats"
    THEN IF ~has_key(bindings, "nats")
         THEN Err("InvalidSchema", <<"bindings", channel_name, "nats">>)
         ELSE Ok
    ELSE Ok

(***************************************************************************)
(* validation::validator::validate_spec                                    *)
(***************************************************************************)
\* components.messages as Option<&HashMap>: None when either level is None
component_messages(spec) ==
    IF IsSome(spec.components) THEN Unwrap(spec.components).messages ELSE None

\* validator.rs 126-152 and 217-242: resolve a "#/components/messages/" path
resolve_component_ref(spec, path, context) ==
    LET component_name == strip_prefix(path, ComponentsMessagesPrefix)
    IN  IF IsSome(spec.components)
        THEN IF IsSome(Unwrap(spec.components).messages)
             THEN IF ~contains_key(DOMAIN Unwrap(Unwrap(spec.components).messages),
                                   component_name)
                  THEN Err("InvalidSchema",
                           <<"component does not exist">> \o context \o component_name)
                  ELSE Ok
             ELSE Err("InvalidSchema",
                      <<"no components.messages">> \o context \o component_name)
        ELSE Err("InvalidSchema",
                 <<"no components section">> \o context \o component_name)

\* mutant: channel and message name taken from the wrong parts of the path
resolve_channel_ref_swapped(spec, path, context) ==
    LET path_parts == split_messages(strip_prefix(path, ChannelsPrefix), 1, 1)
    IN  IF Len(path_parts) = 2
        THEN LET ref_channel == path_parts[2]
                 ref_message == path_parts[1]
             IN  IF contains_key(DOMAIN spec.channels, ref_channel)
                 THEN IF ~contains_key(DOMAIN spec.channels[ref_channel[1]].messages,
                                       ref_message)
                      THEN Err("InvalidSchema",
                               <<"referenced message does not exist">> \o context
                                   \o ref_channel \o ref_message)
                      ELSE Ok
                 ELSE Err("InvalidSchema",
                          <<"referenced channel does not exist">> \o context
                              \o ref_channel)
        ELSE Ok

\* validator.rs 153-180: a "#/channels/" message reference
resolve_channel_ref(spec, path, context) ==
    LET path_parts == split_messages(strip_prefix(path, ChannelsPrefix), 1, 1)
    IN  IF Len(path_parts) = 2
        THEN LET ref_channel == path_parts[1]
                 ref_message == path_parts[2]
             IN  IF contains_key(DOMAIN spec.channels, ref_channel)
                 THEN IF ~contains_key(DOMAIN spec.channels[ref_channel[1]].messages,
                                       ref_message)
                      THEN Err("InvalidSchema",
                               <<"referenced message does not exist">> \o context
                                   \o ref_channel \o ref_message)
                      ELSE Ok
                 ELSE Err("InvalidSchema",
                          <<"referenced channel does not exist">> \o context
                              \o ref_channel)
        ELSE Ok

\* mutant: the message-id of an inline message is compared but not recorded
validate_message_no_insert(spec, channel_name, message_name, message_or_ref, message_ids) ==
    IF message_or_ref.tag = "Message"
    THEN LET message == message_or_ref.message
         IN  IF is_null(message.payload.schema)
             THEN [res |-> Err("InvalidSchema",
                               <<"null schema", message_name, channel_name>>),
                   ids |-> message_ids]
             ELSE IF IsSome(message.message_id)
                     /\ Unwrap(message.message_id) \in message_ids
                  THEN [res |-> Err("DuplicateMessageId",
                                    <<Unwrap(message.message_id),
                                      channel_name, message_name>>),
                        ids |-> message_ids]
                  ELSE [res |-> Ok, ids |-> message_ids]
    ELSE LET ref_path == message_or_ref.ref_path
             context == <<message_name, channel_name>>
         IN  [res |-> IF starts_with(ref_path, ComponentsMessagesPrefix)
                      THEN resolve_component_ref(spec, ref_path, context)
                      ELSE IF starts_with(ref_path, ChannelsPrefix)
                      THEN resolve_channel_ref(spec, ref_path, context)
                      ELSE Err("InvalidSchema",
                               <<"invalid message reference format">> \o context
                                   \o ref_path),
              ids |-> message_ids]

\* mutant: a resolved component reference records the component's message-id
validate_message_ref_counted(spec, channel_name, message_name, message_or_ref, message_ids) ==
    IF message_or_ref.tag = "Message"
    THEN LET message == message_or_ref.message
         IN  IF is_null(message.payload.schema)
             THEN [res |-> Err("InvalidSchema",
                               <<"null schema", message_name, channel_name>>),
                   ids |-> message_ids]
             ELSE IF IsSome(message.message_id)
                  THEN IF Unwrap(message.message_id) \in message_ids
                       THEN [res |-> Err("DuplicateMessageId",
                                         <<Unwrap(message.message_id),
                                           channel_name, message_name>>),
                             ids |-> message_ids]
                       ELSE [res |-> Ok,
                             ids |-> message_ids \cup {Unwrap(message.message_id)}]
                  ELSE [res |-> Ok, ids |-> message_ids]
    ELSE LET ref_path == message_or_ref.ref_path
             context == <<message_name, channel_name>>
             res == IF starts_with(ref_path, ComponentsMessagesPrefix)
                    THEN resolve_component_ref(spec, ref_path, context)
                    ELSE IF starts_with(ref_path, ChannelsPrefix)
                    THEN resolve_channel_ref(spec, ref_path, context)
                    ELSE Err("InvalidSchema",
                             <<"invalid message reference format">> \o context
                                 \o ref_path)
             target == IF res = Ok /\ starts_with(ref_path, ComponentsMessagesPrefix)
                       THEN Unwrap(Unwrap(spec.components).messages)[
                                strip_prefix(ref_path, ComponentsMessagesPrefix)[1]].message_id
                       ELSE None
         IN  [res |-> res, ids |-> message_ids \cup {target[i] : i \in DOMAIN target}]

\* validator.rs 100-188: one entry of a channel's message map.  Returns the
\* outcome and the message-id set after the entry.
validate_message(spec, channel_name, message_name, message_or_ref, message_ids) ==
    IF message_or_ref.tag = "Message"
    THEN LET message == message_or_ref.message
         IN  IF is_null(message.payload.schema)
             THEN [res |-> Err("InvalidSchema",
                               <<"null schema", message_name, channel_name>>),
                   ids |-> message_ids]
             ELSE IF IsSome(message.message_id)
                  THEN IF Unwrap(message.message_id) \in message_ids
                       THEN [res |-> Err("DuplicateMessageId",
                                         <<Unwrap(message.message_id),
                                           channel_name, message_name>>),
                             ids |-> message_ids]
                       ELSE [res |-> Ok,
                             ids |-> message_ids \cup {Unwrap(message.message_id)}]
                  ELSE [res |-> Ok, ids |-> message_ids]
    ELSE LET ref_path == message_or_ref.ref_path
             context == <<message_name, channel_name>>
         IN  [res |-> IF starts_with(ref_path, ComponentsMessagesPrefix)
                      THEN resolve_component_ref(spec, ref_path, context)
                      ELSE IF starts_with(ref_path, ChannelsPrefix)
                      THEN resolve_channel_ref(spec, ref_path, context)
                      ELSE Err("InvalidSchema",
                               <<"invalid message reference format">> \o context
                                   \o ref_path),
              ids |-> message_ids]

\* validator.rs 100: for (message_name, message_or_ref) in &channel.messages
RECURSIVE validate_messages(_, _, _, _, _)
validate_messages(spec, channel_name, order, i, message_ids) ==
    IF i > Len(order) THEN [res |-> Ok, ids |-> message_ids]
    ELSE LET r == validate_message(spec, channel_name, order[i],
                                   spec.channels[channel_name].messages[order[i]],
                                   message_ids)
         IN  IF r.res # Ok THEN r
             ELSE validate_messages(spec, channel_name, order, i + 1, r.ids)

\* mutant: only the first server a channel lists is looked up
validate_channel_servers_first_only(channel_servers, server_names, i) ==
    IF Len(channel_servers) = 0 THEN Ok
    ELSE IF channel_servers[1] \notin server_names
         THEN Err("InvalidServerReference", <<channel_servers[1]>>)
         ELSE Ok

\* validator.rs 82-97: for server_name in channel_servers
RECURSIVE validate_channel_servers(_, _, _)
validate_channel_servers(channel_servers, server_names, i) ==
    IF i > Len(channel_servers) THEN Ok
    ELSE IF channel_servers[i] \notin server_names
         THEN Err("InvalidServerReference", <<channel_servers[i]>>)
         ELSE validate_channel_servers(channel_servers, server_names, i + 1)

\* mutant: the server list is checked before the message map
validate_channel_servers_first(spec, ord, channel_name, server_names, message_ids) ==
    LET channel == spec.channels[channel_name]
        sr == IF IsSome(channel.servers)
              THEN validate_channel_servers(Unwrap(channel.servers), server_names, 1)
              ELSE Ok
    IN  IF sr # Ok THEN [res |-> sr, ids |-> message_ids]
        ELSE IF DOMAIN channel.messages = {}
        THEN [res |-> Err("ChannelWithoutMessages", <<channel_name>>),
              ids |-> message_ids]
        ELSE validate_messages(spec, channel_name, ord.messages[channel_name], 1,
                               message_ids)

\* validator.rs 73-190: the body of the channel loop for one channel
validate_channel(spec, ord, channel_name, server_names, message_ids) ==
    LET channel == spec.channels[channel_name]
        sr == IF IsSome(channel.servers)
              THEN validate_channel_servers(Unwrap(channel.servers), server_names, 1)
              ELSE Ok
    IN  IF DOMAIN channel.messages = {}
        THEN [res |-> Err("ChannelWithoutMessages", <<channel_name>>),
              ids |-> message_ids]
        ELSE IF sr # Ok THEN [res |-> sr, ids |-> message_ids]
        ELSE validate_messages(spec, channel_name, ord.messages[channel_name], 1,
                               message_ids)

\* mutant: only the channel the map yields first is checked
validate_channels_first_only(spec, ord, i, server_names, message_ids) ==
    IF Len(ord.channels) = 0 THEN [res |-> Ok, ids |-> message_ids]
    ELSE validate_channel(spec, ord, ord.channels[1], server_names, message_ids)

\* validator.rs 73: for (channel_name, channel) in &spec.channels
RECURSIVE validate_channels(_, _, _, _, _)
validate_channels(spec, ord, i, server_names, message_ids) ==
    IF i > Len(ord.channels) THEN [res |-> Ok, ids |-> message_ids]
    ELSE LET r == validate_channel(spec, ord, ord.channels[i], server_names,
                                   message_ids)
         IN  IF r.res # Ok THEN r
             ELSE validate_channels(spec, ord, i + 1, server_names, r.ids)

\* mutant: only the prefixes are checked, component references are not resolved
RECURSIVE validate_operation_messages_prefix_only(_, _, _, _)
validate_operation_messages_prefix_only(spec, op_id, messages, i) ==
    IF i > Len(messages) THEN Ok
    ELSE IF ~starts_with(messages[i], ChannelsPrefix)
            /\ ~starts_with(messages[i], ComponentsMessagesPrefix)
         THEN Err("InvalidSchema",
                  <<"invalid message reference format", op_id>> \o messages[i])
         ELSE validate_operation_messages_prefix_only(spec, op_id, messages, i + 1)

\* mutant: channel-scoped message references are resolved against the channels
RECURSIVE validate_operation_messages_resolving(_, _, _, _)
validate_operation_messages_resolving(spec, op_id, messages, i) ==
    IF i > Len(messages) THEN Ok
    ELSE LET ref_path == messages[i]
             r == IF ~starts_with(ref_path, ChannelsPrefix)
                     /\ ~starts_with(ref_path, ComponentsMessagesPrefix)
                  THEN Err("InvalidSchema",
                           <<"invalid message reference format", op_id>> \o ref_path)
                  ELSE IF starts_with(ref_path, ComponentsMessagesPrefix)
                  THEN resolve_component_ref(spec, ref_path, <<op_id>>)
                  ELSE resolve_channel_ref(spec, ref_path, <<op_id>>)
         IN  IF r # Ok THEN r
             ELSE validate_operation_messages_resolving(spec, op_id, messages, i + 1)

\* validator.rs 203-244: for msg_ref in &op.messages
RECURSIVE validate_operation_messages(_, _, _, _)
validate_operation_messages(spec, op_id, messages, i) ==
    IF i > Len(messages) THEN Ok
    ELSE LET ref_path == messages[i]
             r == IF ~starts_with(ref_path, ChannelsPrefix)
                     /\ ~starts_with(ref_path, ComponentsMessagesPrefix)
                  THEN Err("InvalidSchema",
                           <<"invalid message reference format", op_id>> \o ref_path)
                  ELSE IF starts_with(ref_path, ComponentsMessagesPrefix)
                  THEN resolve_component_ref(spec, ref_path, <<op_id>>)
                  ELSE Ok
         IN  IF r # Ok THEN r
             ELSE validate_operation_messages(spec, op_id, messages, i + 1)

\* validator.rs 194-245: for (op_id, op) in operations
RECURSIVE validate_operations(_, _, _, _)
validate_operations(spec, operations, order, i) ==
    IF i > Len(order) THEN Ok
    ELSE LET op == operations[order[i]]
             r == IF ~starts_with(op.channel, ChannelsPrefix)
                  THEN Err("InvalidChannelReference", op.channel)
                  ELSE validate_operation_messages(spec, order[i], op.messages, 1)
         IN  IF r # Ok THEN r
             ELSE validate_operations(spec, operations, order, i + 1)

\* mutant: only the first server the map yields is checked
validate_servers_first_only(servers, order, i) ==
    IF Len(order) = 0 THEN Ok
    ELSE LET e == validate_protocol(servers[order[1]].protocol)
         IN  IF e # Ok
             THEN IF e.kind = "UnsupportedProtocol"
                  THEN Err("InvalidProtocol", <<order[1]>> \o e.arg)
                  ELSE e
             ELSE Ok

\* validator.rs 250-261: for (server_name, server) in servers
RECURSIVE validate_servers(_, _, _)
validate_servers(servers, order, i) ==
    IF i > Len(order) THEN Ok
    ELSE LET e == validate_protocol(servers[order[i]].protocol)
         IN  IF e # Ok
             THEN IF e.kind = "UnsupportedProtocol"
                  THEN Err("InvalidProtocol", <<order[i]>> \o e.arg)
                  ELSE e
             ELSE validate_servers(servers, order, i + 1)

\* validator.rs 265-272: the second pass over &spec.channels
RECURSIVE validate_bindings(_, _, _)
validate_bindings(spec, order, i) ==
    IF i > Len(order) THEN Ok
    ELSE LET channel == spec.channels[order[i]]
             protocol == get_channel_protocol(channel, spec)
             r == IF IsSome(channel.bindings) /\ IsSome(protocol)
                     /\ IsSome(bindings_value(Unwrap(channel.bindings)))
                  THEN validate_channel_bindings(Unwrap(protocol),
                           Unwrap(bindings_value(Unwrap(channel.bindings))),
                           order[i])
                  ELSE Ok
         IN  IF r # Ok THEN r ELSE validate_bindings(spec, order, i + 1)

\* mutant: component message-ids are not checked against the collected ids
RECURSIVE validate_components_ids_unchecked(_, _, _, _)
validate_components_ids_unchecked(messages, order, i, message_ids) ==
    IF i > Len(order) THEN Ok
    ELSE IF is_null(messages[order[i]].payload.schema)
         THEN Err("InvalidSchema", <<"component null schema", order[i]>>)
         ELSE validate_components_ids_unchecked(messages, order, i + 1, message_ids)

\* mutant: component payload schemas are not checked
RECURSIVE validate_components_schema_unchecked(_, _, _, _)
validate_components_schema_unchecked(messages, order, i, message_ids) ==
    IF i > Len(order) THEN Ok
    ELSE LET message == messages[order[i]]
         IN  IF IsSome(message.message_id)
                /\ Unwrap(message.message_id) \in message_ids
             THEN Err("DuplicateMessageId",
                      <<Unwrap(message.message_id), order[i]>>)
             ELSE validate_components_schema_unchecked(messages, order, i + 1,
                      IF IsSome(message.message_id)
                      THEN message_ids \cup {Unwrap(message.message_id)}
                      ELSE message_ids)

\* validator.rs 277-295: for (component_name, message) in messages
RECURSIVE validate_components(_, _, _, _)
validate_components(messages, order, i, message_ids) ==
    IF i > Len(order) THEN Ok
    ELSE LET message == messages[order[i]]
         IN  IF is_null(message.payload.schema)
             THEN Err("InvalidSchema", <<"component null schema", order[i]>>)
             ELSE IF IsSome(message.message_id)
                     /\ Unwrap(message.message_id) \in message_ids
             THEN Err("DuplicateMessageId",
                      <<Unwrap(message.message_id), order[i]>>)
             ELSE validate_components(messages, order, i + 1,
                      IF IsSome(message.message_id)
                      THEN message_ids \cup {Unwrap(message.message_id)}
                      ELSE message_ids)

\* validator.rs 62-299: everything after the version, info and empty-channels
\* checks
validate_body(spec, ord) ==
    LET server_names == IF IsSome(spec.servers)
                        THEN DOMAIN Unwrap(spec.servers) ELSE {}
        ch == validate_channels(spec, ord, 1, server_names, {})
        ops == IF IsSome(spec.operations)
               THEN validate_operations(spec, Unwrap(spec.operations),
                                        ord.operations, 1)
               ELSE Ok
        srv == IF IsSome(spec.servers)
               THEN validate_servers(Unwrap(spec.servers), ord.servers, 1)
               ELSE Ok
        bnd == validate_bindings(spec, ord.channels, 1)
    IN  IF ch.res # Ok THEN ch.res
        ELSE IF ops # Ok THEN ops
        ELSE IF srv # Ok THEN srv
        ELSE IF bnd # Ok THEN bnd
        ELSE IF IsSome(component_messages(spec))
        THEN validate_components(Unwrap(component_messages(spec)),
                                 ord.components, 1, ch.ids)
        ELSE Ok

\* mutant: a document without channels is not rejected
validate_spec_channels_unchecked(spec, ord) ==
    IF spec.asyncapi # ASYNCAPI_VERSION
    THEN Err("InvalidAsyncApiVersion", <<spec.asyncapi>>)
    ELSE IF spec.info.title = ""
    THEN Err("MissingRequiredField", <<"info.title">>)
    ELSE IF spec.info.version = ""
    THEN Err("MissingRequiredField", <<"info.version">>)
    ELSE validate_body(spec, ord)

validate_spec(spec, ord) ==
    IF spec.asyncapi # ASYNCAPI_VERSION
    THEN Err("InvalidAsyncApiVersion", <<spec.asyncapi>>)
    ELSE IF spec.info.title = ""
    THEN Err("MissingRequiredField", <<"info.title">>)
    ELSE IF spec.info.version = ""
    THEN Err("MissingRequiredField", <<"info.version">>)
    ELSE IF DOMAIN spec.channels = {}
    THEN Err("EmptyChannels", <<>>)
    ELSE validate_body(spec, ord)

(***************************************************************************)
(* Iteration orders of the unordered maps                                  *)
(***************************************************************************)
\* every order in which a HashMap may yield the keys S
Perms(S) ==
    {f \in [1..Cardinality(S) -> S] : \A i, j \in DOMAIN f : i # j => f[i] # f[j]}

Orders(spec) ==
    [channels   : Perms(DOMAIN spec.channels),
     messages   : {f \in [DOMAIN spec.channels ->
                            UNION {Perms(DOMAIN spec.channels[c].messages) :
                                   c \in DOMAIN spec.channels}] :
                   \A c \in DOMAIN spec.channels :
                       f[c] \in Perms(DOMAIN spec.channels[c].messages)},
     operations : IF IsSome(spec.operations)
                  THEN Perms(DOMAIN Unwrap(spec.operations)) ELSE {<<>>},
     servers    : IF IsSome(spec.servers)
                  THEN Perms(DOMAIN Unwrap(spec.servers)) ELSE {<<>>},
     components : IF IsSome(component_messages(spec))
                  THEN Perms(DOMAIN Unwrap(component_messages(spec))) ELSE {<<>>}]

(***************************************************************************)
(* Bounded documents.  The documents handed to the validator are the union *)
(* of four families, each varying one part of the document freely and      *)
(* keeping the rest small.                                                 *)
(***************************************************************************)
\* message entries in all channel message maps of a document together
MaxMessages == 2

\* length of a channel's server list
MaxChanServers == 2

\* length of an operation's message list
MaxOpMessages == 1

ChannelNames == {"a", "b"}

MessageNames == {"m1", "m2"}

ServerNames == {"prod", "dev"}

ComponentNames == {"c1", "c2"}

OperationIds == {"op1", "op2"}

ProtocolIds == {"nats", "kafka", "mqtt", "amqp", "Kafka"}

\* all maps from a subset of keys, of at most n entries, to vals
MapsUpTo(keys, vals, n) ==
    UNION {[S -> vals] : S \in {T \in SUBSET keys : Cardinality(T) <= n}}

\* all sequences over S of length at most n
SeqsUpTo(S, n) == UNION {[1..k -> S] : k \in 0..n}

GoodSchema == JsonObject({"type"})

Msg(schema, id) == [payload |-> [schema |-> schema], message_id |-> id]

Inline(m) == [tag |-> "Message", message |-> m]

Ref(p) == [tag |-> "Ref", ref_path |-> p]

PlainMessage == Msg(GoodSchema, None)

MessageSet ==
    [payload : [schema : {JsonNull, GoodSchema}],
     message_id : {None, Some("id1"), Some("id2")}]

MessageRefPaths ==
    {<<"#", "components", "messages", "c1">>,
     <<"#", "channels", "a", "messages", "m1">>,
     <<"#", "channels", "a">>,
     <<"#", "channels", "a", "messages", "m1", "messages", "m2">>,
     <<"#", "messages", "m1">>}

MessageOrRefSet ==
    {Inline(m) : m \in MessageSet} \cup {Ref(p) : p \in MessageRefPaths}

InlineBindings(v) == Some([tag |-> "Bindings", value |-> v])

BindingsSet ==
    {None,
     InlineBindings(JsonObject({"kafka"})),
     InlineBindings(JsonObject({"mqtt", "nats"})),
     InlineBindings(JsonString),
     Some([tag |-> "Ref",
           ref_path |-> <<"#", "components", "channelBindings", "cb">>])}

\* Channel; address and description are carried along and never read
Chan(messages, servers, bindings) ==
    [messages |-> messages, servers |-> servers, parameters |-> None,
     bindings |-> bindings]

Document(asyncapi, title, version, servers, channels, operations, components) ==
    [asyncapi |-> asyncapi, info |-> [title |-> title, version |-> version],
     servers |-> servers, channels |-> channels, operations |-> operations,
     components |-> components, tags |-> None]

\* Components::default(): every collection absent
Components_default ==
    [messages |-> None, schemas |-> None, security_schemes |-> None,
     parameters |-> None, channel_bindings |-> None, message_bindings |-> None,
     server_bindings |-> None, operation_traits |-> None, message_traits |-> None]

\* Components with only the message collection set
Comps(messages) == [Components_default EXCEPT !.messages = messages]

\* components: absent, without a message map, or with a message map
ComponentsOver(messages) ==
    {None, Some(Comps(None))}
        \cup {Some(Comps(Some(m))) :
                 m \in MapsUpTo(ComponentNames, messages, 2)}

\* channel maps over ChannelNames holding at most MaxMessages entries in all
MessageChannelMaps ==
    LET maps(n) == {Chan(m, None, None) :
                       m \in MapsUpTo(MessageNames, MessageOrRefSet, n)}
        size(c) == Cardinality(DOMAIN c.messages)
    IN  {<<>>}
        \cup {[x \in {n} |-> c] : n \in ChannelNames, c \in maps(MaxMessages)}
        \cup UNION {{[x \in ChannelNames |-> IF x = "a" THEN ca ELSE cb] :
                        cb \in maps(MaxMessages - size(ca))} :
                    ca \in maps(MaxMessages)}

\* messages, references and message-ids
MessageDocs ==
    {Document(ASYNCAPI_VERSION, "T", "1.0.0", None, ch, None, co) :
        ch \in MessageChannelMaps,
        co \in ComponentsOver({Msg(GoodSchema, Some("id1")), Msg(GoodSchema, None),
                               Msg(JsonNull, Some("id2"))})}

\* channel maps in which channel "a" takes every server list and bindings and
\* channel "b" only a few
ServerChannelMaps ==
    LET one == [x \in {"m1"} |-> Inline(PlainMessage)]
        as == {Chan(one, s, b) :
                  s \in {None} \cup {Some(q) : q \in SeqsUpTo(ServerNames,
                                                             MaxChanServers)},
                  b \in BindingsSet}
        bs == {Chan(one, s, b) :
                  s \in {None, Some(<<"dev">>)},
                  b \in {None, InlineBindings(JsonString)}}
    IN  {<<>>}
        \cup {[x \in {"a"} |-> ca] : ca \in as}
        \cup {[x \in {"b"} |-> cb] : cb \in bs}
        \cup {[x \in ChannelNames |-> IF x = "a" THEN ca ELSE cb] :
                 ca \in as, cb \in bs}

\* servers, channel server lists, protocols and bindings
ServerDocs ==
    {Document(ASYNCAPI_VERSION, "T", "1.0.0", sv, ch, None, None) :
        sv \in {None} \cup {Some(m) : m \in MapsUpTo(ServerNames,
                                                      [protocol : ProtocolIds], 2)},
        ch \in ServerChannelMaps}

OperationSet ==
    [channel  : {<<"#", "channels", "a">>, <<"#", "channels", "zz">>,
                 <<"channels", "a">>},
     messages : SeqsUpTo({<<"#", "components", "messages", "c1">>,
                          <<"#", "components", "messages", "zz">>,
                          <<"#", "channels", "a", "messages", "m1">>,
                          <<"#", "channels", "zz", "messages", "m9">>,
                          <<"#", "messages", "m1">>}, MaxOpMessages)]

\* operations and the component messages they refer to
OperationDocs ==
    {Document(ASYNCAPI_VERSION, "T", "1.0.0", None,
              [x \in {"a"} |-> Chan([y \in {"m1"} |-> Inline(PlainMessage)],
                                    None, None)],
              ops, co) :
        ops \in {None} \cup {Some(m) : m \in MapsUpTo(OperationIds, OperationSet, 2)},
        co \in {None, Some(Comps(None)), Some(Comps(Some(<<>>))),
                Some(Comps(Some([x \in {"c1"} |-> PlainMessage])))}}

\* every stage passing or failing, in all combinations
MixedDocs ==
    {Document(v, t, iv, sv, ch, ops, co) :
        v \in {ASYNCAPI_VERSION, "2.6.0"}, t \in {"", "T"}, iv \in {"", "1.0.0"},
        sv \in {None, Some([x \in {"prod"} |-> [protocol |-> "kafka"]]),
                Some([x \in {"prod"} |-> [protocol |-> "amqp"]])},
        ch \in MapsUpTo({"a"},
                 {Chan(m, s, b) :
                     m \in MapsUpTo({"m1"},
                              {Inline(PlainMessage), Inline(Msg(GoodSchema, Some("id1"))),
                               Inline(Msg(JsonNull, None)),
                               Ref(<<"#", "messages", "m1">>)}, 1),
                     s \in {None, Some(<<"prod">>)},
                     b \in {None, InlineBindings(JsonObject({"mqtt"}))}}, 1),
        ops \in {None,
                 Some([x \in {"op1"} |-> [channel |-> <<"#", "channels", "a">>,
                                          messages |-> <<>>]]),
                 Some([x \in {"op1"} |-> [channel |-> <<"channels", "a">>,
                                          messages |-> <<>>]])},
        co \in {None,
                Some(Comps(Some([x \in {"c1"} |-> Msg(GoodSchema, Some("id1"))]))),
                Some(Comps(Some([x \in {"c1"} |-> Msg(JsonNull, None)])))}}

(***************************************************************************)
(* protocol::kafka, protocol::mqtt: channel bindings.  serde skips a field *)
(* that is None and writes the config under the protocol's key.            *)
(***************************************************************************)
\* HashMap::insert / serde_json::Map::insert
insert(map, k, v) == [x \in DOMAIN map \cup {k} |-> IF x = k THEN v ELSE map[x]]

\* a struct field with skip_serializing_if = "Option::is_none"
ser_field(obj, key, opt) == IF IsSome(opt) THEN insert(obj, key, Unwrap(opt)) ELSE obj

\* MqttQos::as_u8: the discriminant of the level
as_u8(q) ==
    IF q = "AtMostOnce" THEN 0 ELSE IF q = "AtLeastOnce" THEN 1 ELSE 2

\* serde_json::to_value of an Option field of type t: the JSON value of the
\* payload when there is one
to_value(opt, t) ==
    IF ~IsSome(opt) THEN None
    ELSE IF t = "string" THEN Some(JsonStr(Unwrap(opt)))
    ELSE IF t = "number" THEN Some(JsonNum(Unwrap(opt)))
    ELSE Some(JsonBool(Unwrap(opt)))

\* mutant: an invalid value falls back to the lowest level
from_u8_defaulting(value) ==
    IF value = 0 THEN Some("AtMostOnce")
    ELSE IF value = 1 THEN Some("AtLeastOnce")
    ELSE IF value = 2 THEN Some("ExactlyOnce")
    ELSE Some("AtMostOnce")

\* MqttQos::from_u8: None for a value that is no discriminant
from_u8(value) ==
    IF value = 0 THEN Some("AtMostOnce")
    ELSE IF value = 1 THEN Some("AtLeastOnce")
    ELSE IF value = 2 THEN Some("ExactlyOnce")
    ELSE None

\* qos.map(|q| q.as_u8())
map_as_u8(qos) == IF IsSome(qos) THEN Some(as_u8(Unwrap(qos))) ELSE None

\* mutant: the partitions are left out of the payload
KafkaProtocol_channel_binding_no_partitions(topic, partitions, replicas) ==
    LET c1 == ser_field(<<>>, "topic", to_value(topic, "string"))
        c3 == ser_field(c1, "replicas", to_value(replicas, "number"))
        c4 == ser_field(c3, "binding_version", Some(JsonStr("0.4.0")))
    IN  JsonObj(insert(<<>>, "kafka", JsonObj(c4)))

KafkaProtocol_channel_binding(topic, partitions, replicas) ==
    LET c1 == ser_field(<<>>, "topic", to_value(topic, "string"))
        c2 == ser_field(c1, "partitions", to_value(partitions, "number"))
        c3 == ser_field(c2, "replicas", to_value(replicas, "number"))
        c4 == ser_field(c3, "binding_version", Some(JsonStr("0.4.0")))
    IN  JsonObj(insert(<<>>, "kafka", JsonObj(c4)))

MqttProtocol_channel_binding(topic, qos, retain) ==
    LET c1 == ser_field(<<>>, "qos", to_value(map_as_u8(qos), "number"))
        c2 == ser_field(c1, "retain", to_value(retain, "boolean"))
        c3 == ser_field(c2, "topic", to_value(topic, "string"))
        c4 == ser_field(c3, "binding_version", Some(JsonStr("0.2.0")))
    IN  JsonObj(insert(<<>>, "mqtt", JsonObj(c4)))

(***************************************************************************)
(* builder::AsyncApiBuilder.  A builder is the record [spec |-> document]; *)
(* every method takes the builder and returns the builder it becomes.      *)
(***************************************************************************)
new ==
    [spec |-> [asyncapi |-> ASYNCAPI_VERSION,
               info |-> [title |-> "", version |-> ""],
               servers |-> None, channels |-> <<>>, operations |-> None,
               components |-> None, tags |-> None]]

info(self, i) == [self EXCEPT !.spec.info = i]

server(self, name, srv) ==
    LET servers == IF self.spec.servers = None THEN <<>> ELSE Unwrap(self.spec.servers)
    IN  [self EXCEPT !.spec.servers = Some(insert(servers, name, srv))]

\* mutant: a channel is only inserted into an empty channel map
channel_first_only(self, name, ch) ==
    IF DOMAIN self.spec.channels = {}
    THEN [self EXCEPT !.spec.channels = insert(self.spec.channels, name, ch)]
    ELSE self

\* mutant: the messages of a channel already under the name are kept
channel_keeping_messages(self, name, ch) ==
    IF name \in DOMAIN self.spec.channels
    THEN [self EXCEPT !.spec.channels =
             insert(self.spec.channels, name,
                    [ch EXCEPT !.messages =
                        [m \in DOMAIN self.spec.channels[name].messages
                                  \cup DOMAIN ch.messages |->
                            IF m \in DOMAIN ch.messages THEN ch.messages[m]
                            ELSE self.spec.channels[name].messages[m]]])]
    ELSE [self EXCEPT !.spec.channels = insert(self.spec.channels, name, ch)]

channel(self, name, ch) ==
    [self EXCEPT !.spec.channels = insert(self.spec.channels, name, ch)]

\* mutant: a channel that is absent is created to hold the message
channel_message_creating(self, channel_name, message_name, message) ==
    IF channel_name \in DOMAIN self.spec.channels
    THEN [self EXCEPT !.spec.channels[channel_name].messages =
              insert(@, message_name, Inline(message))]
    ELSE [self EXCEPT !.spec.channels =
              insert(@, channel_name,
                     Chan(insert(<<>>, message_name, Inline(message)), None, None))]

channel_message(self, channel_name, message_name, message) ==
    IF channel_name \in DOMAIN self.spec.channels
    THEN [self EXCEPT !.spec.channels[channel_name].messages =
              insert(@, message_name, Inline(message))]
    ELSE self

channel_with_params(self, name, ch, parameters) ==
    [self EXCEPT !.spec.channels =
        insert(@, name, [ch EXCEPT !.parameters = Some(parameters)])]

channel_with_bindings(self, name, ch, bindings) ==
    [self EXCEPT !.spec.channels =
        insert(@, name, [ch EXCEPT !.bindings = InlineBindings(bindings)])]

\* ChannelBindingsOrRef::component_ref: "#/components/channelBindings/{name}"
channel_with_bindings_ref(self, name, ch, component_name) ==
    [self EXCEPT !.spec.channels =
        insert(@, name,
               [ch EXCEPT !.bindings =
                   Some([tag |-> "Ref",
                         ref_path |-> <<"#", "components", "channelBindings",
                                        component_name>>])])]

\* the pattern of every component_* method: create the components section
\* and the collection when absent, then insert
component_insert(self, field, name, value) ==
    LET components == IF self.spec.components = None THEN Components_default
                      ELSE Unwrap(self.spec.components)
        collection == IF components[field] = None THEN <<>>
                      ELSE Unwrap(components[field])
    IN  [self EXCEPT !.spec.components =
            Some([components EXCEPT ![field] = Some(insert(collection, name, value))])]

component_message(self, name, message) ==
    component_insert(self, "messages", name, message)

component_schema(self, name, schema) ==
    component_insert(self, "schemas", name, schema)

tags(self, t) == [self EXCEPT !.spec.tags = Some(t)]

channel_message_ref(self, channel_name, message_name, component_name) ==
    IF channel_name \in DOMAIN self.spec.channels
    THEN [self EXCEPT !.spec.channels[channel_name].messages =
              insert(@, message_name,
                     Ref(<<"#", "components", "messages", component_name>>))]
    ELSE self

component_parameter(self, name, parameter) ==
    component_insert(self, "parameters", name, parameter)

component_channel_bindings(self, name, bindings) ==
    component_insert(self, "channel_bindings", name, bindings)

component_message_bindings(self, name, bindings) ==
    component_insert(self, "message_bindings", name, bindings)

component_server_bindings(self, name, bindings) ==
    component_insert(self, "server_bindings", name, bindings)

component_operation_trait(self, name, trait) ==
    component_insert(self, "operation_traits", name, trait)

component_message_trait(self, name, trait) ==
    component_insert(self, "message_traits", name, trait)

build(self) == self.spec

\* mutant: the built document is returned without being validated
build_and_validate_unchecked(self, ord) ==
    [res |-> Ok, value |-> Some(build(self))]

\* Result<AsyncApiSpec, ValidationError>: res is Ok or the error, value the
\* document of Ok(spec)
build_and_validate(self, ord) ==
    LET spec == build(self)
        r == validate_spec(spec, ord)
    IN  IF r # Ok THEN [res |-> r, value |-> None]
        ELSE [res |-> Ok, value |-> Some(spec)]

kafka_channel(self, name, ch, topic, partitions, replicas) ==
    LET bindings == KafkaProtocol_channel_binding(topic, partitions, replicas)
    IN  channel_with_bindings(self, name, ch, bindings)

mqtt_channel(self, name, ch, topic, qos, retain) ==
    LET bindings == MqttProtocol_channel_binding(topic, qos, retain)
    IN  channel_with_bindings(self, name, ch, bindings)

(***************************************************************************)
(* schema::generator: the schema cache.  SCHEMA_CACHE is the               *)
(* RwLock<HashMap<TypeId, Arc<Value>>>: the map, the threads holding the   *)
(* read lock, the thread holding the write lock, and the entry a           *)
(* HashMap::insert is in the middle of writing.  The generator             *)
(* (T::json_schema on a fresh SchemaGenerator, then serde_json::to_value)  *)
(* gives a value determined by T or fails.  No thread panics while it      *)
(* holds the lock, so the lock is never poisoned.                          *)
(*                                                                         *)
(* thread[t] is the call thread t is in: its position, the TypeId, the     *)
(* generated value, what the call returned, how often it ran the           *)
(* generator, whether its lookup missed, and how many stores for its       *)
(* TypeId had completed when it looked up.  hist records per TypeId the generator runs, the successful  *)
(* runs, the completed stores and the values returned, and whether two     *)
(* calls have ever been in progress together.                              *)
(***************************************************************************)
\* threads calling generate_schema
NumThreads == 2

\* calls each thread makes, one after the other
MaxSchemaCalls == 2

Threads == 1..NumThreads

TypeIds == {"TestStruct1", "TestStruct2"}

\* the complete output of the generator for T
Schema(T) == [type_id |-> T, complete |-> TRUE]

\* what a read of the map sees while an insert is writing an entry
Torn == [type_id |-> "?", complete |-> FALSE]

SchemaOk(v) == [kind |-> "Ok", value |-> v]

SchemaErr == [kind |-> "Serialization", value |-> Torn]

Idle == [pc |-> "idle", type_id |-> "TestStruct1", value |-> None, ret |-> None,
         runs |-> 0, n |-> 0, missed |-> FALSE, seen |-> 0]

\* no conversion is at hand
ConvIdle == [pc |-> "idle"]

CacheInit ==
    /\ SCHEMA_CACHE = [map |-> [T \in TypeIds |-> None], readers |-> {},
                       writer |-> None, writing |-> None]
    /\ thread = [t \in Threads |-> Idle]
    /\ hist = [runs |-> [T \in TypeIds |-> 0], ok |-> [T \in TypeIds |-> 0],
               stores |-> [T \in TypeIds |-> 0], returned |-> [T \in TypeIds |-> {}],
               concurrent |-> FALSE]

other_vars == <<doc, pc, result, ref_bindings, builder_vars, conv>>

(***************************************************************************)
(* The state machine: a document is handed to validate_spec                *)
(***************************************************************************)
Init ==
    /\ \/ doc \in MessageDocs
       \/ doc \in ServerDocs
       \/ doc \in OperationDocs
       \/ doc \in MixedDocs
    /\ pc = "built"
    /\ result = Ok
    /\ ref_bindings \in {"skipped", "serialized"}
    /\ builder = new
    /\ built = None
    /\ calls = 0
    /\ discarded = {}
    /\ CacheInit
    /\ conv = ConvIdle

\* validate_spec(&spec) on a document at hand
Validate ==
    /\ pc = "built"
    /\ \E ord \in Orders(doc) : result' = validate_spec(doc, ord)
    /\ pc' = "validated"
    /\ UNCHANGED <<doc, ref_bindings, builder_vars, cache_vars, conv>>

Next == Validate

Spec == Init /\ [][Next]_vars

(***************************************************************************)
(* The builder: after AsyncApiBuilder::new() the caller chains at most     *)
(* MaxCalls methods and ends with build() (the document may then be handed *)
(* to validate_spec) or with build_and_validate().                         *)
(***************************************************************************)
\* methods chained on one builder before the terminal call
MaxCalls == 3

InfoSet ==
    {[title |-> "T", version |-> "1.0.0"], [title |-> "", version |-> "1.0.0"]}

BuilderServerSet == [protocol : {"kafka", "amqp"}]

BuilderChannelNames == {"events", "orders"}

BuilderMessageSet == {Msg(GoodSchema, Some("id1")), Msg(GoodSchema, None)}

\* Channel values handed to the channel-inserting methods: a channel with one
\* inline message that carries a message-id, a channel that lists a server,
\* and a channel without messages
EventChannel ==
    Chan([x \in {"Event"} |-> Inline(Msg(GoodSchema, Some("id1")))], None, None)

ServedChannel ==
    Chan([x \in {"Event"} |-> Inline(Msg(GoodSchema, None))], Some(<<"prod">>), None)

BuilderChannelSet == {Chan(<<>>, None, None), EventChannel, ServedChannel}

BuilderBindingsSet == {JsonObject({"kafka"}), JsonStr("x")}

TopicSet == {None, Some("orders")}

QosSet == {None, Some("AtMostOnce"), Some("ExactlyOnce")}

\* a method can be chained
CanChain == pc = "building" /\ calls < MaxCalls

\* what a chained method call leaves alone: all but the builder it returns
Chained ==
    /\ calls' = calls + 1
    /\ discarded' = discarded \cup
          UNION {{<<n, m>> : m \in DOMAIN builder.spec.channels[n].messages
                                     \ DOMAIN builder'.spec.channels[n].messages} :
                 n \in DOMAIN builder.spec.channels}
    /\ UNCHANGED <<doc, pc, result, ref_bindings, built, cache_vars, conv>>

Info ==
    /\ CanChain
    /\ \E i \in InfoSet :
          builder' = info(builder, i)
    /\ Chained

Server ==
    /\ CanChain
    /\ \E s \in BuilderServerSet :
          builder' = server(builder, "prod", s)
    /\ Chained

Channel ==
    /\ CanChain
    /\ \E n \in BuilderChannelNames, c \in BuilderChannelSet :
          builder' = channel(builder, n, c)
    /\ Chained

ChannelMessage ==
    /\ CanChain
    /\ \E n \in BuilderChannelNames, msg \in BuilderMessageSet :
          builder' = channel_message(builder, n, "Other", msg)
    /\ Chained

ChannelWithParams ==
    /\ CanChain
    /\ builder' = channel_with_params(builder, "events", EventChannel,
                                       [x \in {"id"} |-> [location |-> None]])
    /\ Chained

ChannelWithBindings ==
    /\ CanChain
    /\ \E b \in BuilderBindingsSet :
          builder' = channel_with_bindings(builder, "events", EventChannel, b)
    /\ Chained

ChannelWithBindingsRef ==
    /\ CanChain
    /\ builder' = channel_with_bindings_ref(builder, "events", EventChannel, "cb")
    /\ Chained

ComponentMessage ==
    /\ CanChain
    /\ \E n \in {"c1"}, msg \in BuilderMessageSet :
          builder' = component_message(builder, n, msg)
    /\ Chained

ComponentSchema ==
    /\ CanChain
    /\ builder' = component_schema(builder, "s1", GoodSchema)
    /\ Chained

Tags ==
    /\ CanChain
    /\ builder' = tags(builder, <<[name |-> "t1"]>>)
    /\ Chained

ChannelMessageRef ==
    /\ CanChain
    /\ \E n \in BuilderChannelNames :
          builder' = channel_message_ref(builder, n, "Shared", "c1")
    /\ Chained

ComponentParameter ==
    /\ CanChain
    /\ builder' = component_parameter(builder, "p1", [location |-> None])
    /\ Chained

ComponentChannelBindings ==
    /\ CanChain
    /\ builder' = component_channel_bindings(builder, "cb", JsonObject({"kafka"}))
    /\ Chained

ComponentMessageBindings ==
    /\ CanChain
    /\ builder' = component_message_bindings(builder, "mb", JsonObject({"kafka"}))
    /\ Chained

ComponentServerBindings ==
    /\ CanChain
    /\ builder' = component_server_bindings(builder, "sb", JsonObject({"kafka"}))
    /\ Chained

ComponentOperationTrait ==
    /\ CanChain
    /\ builder' = component_operation_trait(builder, "ot", [summary |-> None])
    /\ Chained

ComponentMessageTrait ==
    /\ CanChain
    /\ builder' = component_message_trait(builder, "mt", [summary |-> None])
    /\ Chained

KafkaChannel ==
    /\ CanChain
    /\ \E t \in TopicSet, p \in {None, Some(3)}, r \in {None, Some(2)} :
          builder' = kafka_channel(builder, "orders", ServedChannel, t, p, r)
    /\ Chained

MqttChannel ==
    /\ CanChain
    /\ \E t \in TopicSet, q \in QosSet, r \in {None, Some(TRUE)} :
          builder' = mqtt_channel(builder, "orders", ServedChannel, t, q, r)
    /\ Chained

\* build(): the document is returned as it is
Build ==
    /\ pc = "building"
    /\ doc' = build(builder)
    /\ built' = Some(build(builder))
    /\ pc' = "built"
    /\ UNCHANGED <<result, ref_bindings, builder, calls, discarded, cache_vars, conv>>

\* build_and_validate(): the document or the validator's error is returned
BuildAndValidate ==
    /\ pc = "building"
    /\ \E ord \in Orders(build(builder)) :
          LET r == build_and_validate(builder, ord)
          IN  result' = r.res /\ built' = r.value
    /\ pc' = "returned"
    /\ UNCHANGED <<doc, ref_bindings, builder, calls, discarded, cache_vars, conv>>

BuilderInit ==
    /\ builder = new
    /\ doc = new.spec
    /\ built = None
    /\ calls = 0
    /\ discarded = {}
    /\ pc = "building"
    /\ result = Ok
    /\ ref_bindings \in {"skipped", "serialized"}
    /\ CacheInit
    /\ conv = ConvIdle

BuilderNext ==
    \/ Info \/ Server \/ Channel \/ ChannelMessage \/ ChannelWithParams
    \/ ChannelWithBindings \/ ChannelWithBindingsRef \/ ComponentMessage
    \/ ComponentSchema \/ Tags \/ ChannelMessageRef \/ ComponentParameter
    \/ ComponentChannelBindings \/ ComponentMessageBindings
    \/ ComponentServerBindings \/ ComponentOperationTrait
    \/ ComponentMessageTrait \/ KafkaChannel \/ MqttChannel
    \/ Build \/ BuildAndValidate \/ Validate

BuilderSpec == BuilderInit /\ [][BuilderNext]_vars

(***************************************************************************)
(* The codec: serde's derived Serialize / Deserialize of the document      *)
(* types, with JSON values as the wire form.  A struct is written as an    *)
(* object of its fields, an Option field marked skip_serializing_if is     *)
(* left out when None, and a missing Option field is read as None.  An     *)
(* untagged enum is written as its payload and read by trying the variants *)
(* in the order of their declaration: the first that deserializes wins.    *)
(* Deserialization gives Some(value) or None for an error.  Fields the     *)
(* documents of the model do not carry (address, url, operation_id, ...)   *)
(* are left out, and collections without an inline-or-reference field are  *)
(* carried as the JSON value they hold.                                    *)
(***************************************************************************)
JsonArr(a) == [t |-> "array", o |-> <<>>, a |-> a]

\* the field key of object w when it is there
get(w, key) == IF key \in DOMAIN w.o THEN Some(w.o[key]) ELSE None

\* String: a JSON string
de_String(w) == IF w.t = "string" /\ "s" \in DOMAIN w THEN Some(w.s) ELSE None

\* MessageReference / ChannelReference: {"$ref": ref_path}
ser_MessageReference(ref_path) == JsonObj(insert(<<>>, "$ref", JsonStr(ref_path)))

de_MessageReference(w) ==
    IF w.t = "object" /\ "$ref" \in DOMAIN w.o THEN de_String(w.o["$ref"]) ELSE None

\* MessagePayload: schema is flattened, the payload is written as the entries
\* of the schema (none for a null schema) and read as the object of all
\* entries found
ser_MessagePayload(payload) ==
    IF payload.schema.t = "object" THEN JsonObj(payload.schema.o) ELSE JsonObj(<<>>)

de_MessagePayload(w) ==
    IF w.t = "object" THEN Some([schema |-> JsonObj(w.o)]) ELSE None

\* Message: payload is required, message_id optional
ser_Message(m) ==
    JsonObj(ser_field(insert(<<>>, "payload", ser_MessagePayload(m.payload)),
                      "message_id", to_value(m.message_id, "string")))

de_Message(w) ==
    IF w.t # "object" \/ "payload" \notin DOMAIN w.o THEN None
    ELSE LET payload == de_MessagePayload(w.o["payload"])
             id == get(w, "message_id")
         IN  IF payload = None THEN None
             ELSE IF id = None
                  THEN Some([payload |-> Unwrap(payload), message_id |-> None])
             ELSE IF de_String(Unwrap(id)) = None THEN None
             ELSE Some([payload |-> Unwrap(payload),
                        message_id |-> de_String(Unwrap(id))])

\* MessageOrRef, untagged: Message is tried first, then Ref
ser_MessageOrRef(e) ==
    IF e.tag = "Message" THEN ser_Message(e.message)
    ELSE ser_MessageReference(e.ref_path)

de_MessageOrRef(w) ==
    IF de_Message(w) # None THEN Some(Inline(Unwrap(de_Message(w))))
    ELSE IF de_MessageReference(w) # None
         THEN Some(Ref(Unwrap(de_MessageReference(w))))
    ELSE None

\* ChannelBindingsOrRef, untagged: Bindings(serde_json::Value) is tried first
\* and a serde_json::Value deserializes from every JSON value
ser_ChannelBindingsOrRef(b) ==
    IF b.tag = "Bindings" THEN b.value ELSE ser_MessageReference(b.ref_path)

de_ChannelBindingsOrRef(w) == Some([tag |-> "Bindings", value |-> w])

\* Channel
ser_Channel(ch) ==
    LET f0 == insert(<<>>, "messages",
                     JsonObj([k \in DOMAIN ch.messages |->
                                 ser_MessageOrRef(ch.messages[k])]))
        f1 == ser_field(f0, "servers",
                        IF ch.servers = None THEN None
                        ELSE Some(JsonArr([i \in DOMAIN Unwrap(ch.servers) |->
                                              JsonStr(Unwrap(ch.servers)[i])])))
        f2 == ser_field(f1, "parameters", ch.parameters)
        f3 == ser_field(f2, "bindings",
                        IF ch.bindings = None THEN None
                        ELSE Some(ser_ChannelBindingsOrRef(Unwrap(ch.bindings))))
    IN  JsonObj(f3)

de_Channel(w) ==
    IF w.t # "object" \/ "messages" \notin DOMAIN w.o THEN None
    ELSE IF w.o["messages"].t # "object" THEN None
    ELSE LET ms == [k \in DOMAIN w.o["messages"].o |->
                       de_MessageOrRef(w.o["messages"].o[k])]
             sv == get(w, "servers")
         IN  IF \E k \in DOMAIN ms : ms[k] = None THEN None
             ELSE IF sv # None /\ Unwrap(sv).t # "array" THEN None
             ELSE Some([messages |-> [k \in DOMAIN ms |-> Unwrap(ms[k])],
                        servers |-> IF sv = None THEN None
                                    ELSE Some([i \in DOMAIN Unwrap(sv).a |->
                                                  Unwrap(sv).a[i].s]),
                        parameters |-> get(w, "parameters"),
                        bindings |-> IF get(w, "bindings") = None THEN None
                                     ELSE de_ChannelBindingsOrRef(w.o["bindings"])])

\* Server
ser_Server(sv) == JsonObj(insert(<<>>, "protocol", JsonStr(sv.protocol)))

de_Server(w) ==
    IF w.t = "object" /\ "protocol" \in DOMAIN w.o /\ de_String(w.o["protocol"]) # None
    THEN Some([protocol |-> Unwrap(de_String(w.o["protocol"]))])
    ELSE None

\* Operation: channel is a ChannelReference, messages a Vec<MessageReference>
ser_Operation(op) ==
    JsonObj(insert(insert(<<>>, "channel", ser_MessageReference(op.channel)),
                   "messages",
                   JsonArr([i \in DOMAIN op.messages |->
                               ser_MessageReference(op.messages[i])])))

de_Operation(w) ==
    IF w.t # "object" \/ {"channel", "messages"} \ DOMAIN w.o # {} THEN None
    ELSE IF w.o["messages"].t # "array" THEN None
    ELSE LET ch == de_MessageReference(w.o["channel"])
             ms == [i \in DOMAIN w.o["messages"].a |->
                       de_MessageReference(w.o["messages"].a[i])]
         IN  IF ch = None \/ \E i \in DOMAIN ms : ms[i] = None THEN None
             ELSE Some([channel |-> Unwrap(ch),
                        messages |-> [i \in DOMAIN ms |-> Unwrap(ms[i])]])

\* Components: messages are inline Message values
ser_Components(co) ==
    LET f0 == ser_field(<<>>, "messages",
                        IF co.messages = None THEN None
                        ELSE Some(JsonObj([k \in DOMAIN Unwrap(co.messages) |->
                                              ser_Message(Unwrap(co.messages)[k])])))
        f1 == ser_field(f0, "schemas", co.schemas)
        f2 == ser_field(f1, "security_schemes", co.security_schemes)
        f3 == ser_field(f2, "parameters", co.parameters)
        f4 == ser_field(f3, "channelBindings", co.channel_bindings)
        f5 == ser_field(f4, "messageBindings", co.message_bindings)
        f6 == ser_field(f5, "serverBindings", co.server_bindings)
        f7 == ser_field(f6, "operationTraits", co.operation_traits)
        f8 == ser_field(f7, "messageTraits", co.message_traits)
    IN  JsonObj(f8)

de_Components(w) ==
    IF w.t # "object" THEN None
    ELSE LET mw == get(w, "messages")
             ms == IF mw = None THEN <<>>
                   ELSE [k \in DOMAIN Unwrap(mw).o |-> de_Message(Unwrap(mw).o[k])]
         IN  IF \E k \in DOMAIN ms : ms[k] = None THEN None
             ELSE Some([messages |-> IF mw = None THEN None
                                     ELSE Some([k \in DOMAIN ms |-> Unwrap(ms[k])]),
                        schemas |-> get(w, "schemas"),
                        security_schemes |-> get(w, "security_schemes"),
                        parameters |-> get(w, "parameters"),
                        channel_bindings |-> get(w, "channelBindings"),
                        message_bindings |-> get(w, "messageBindings"),
                        server_bindings |-> get(w, "serverBindings"),
                        operation_traits |-> get(w, "operationTraits"),
                        message_traits |-> get(w, "messageTraits")])

\* AsyncApiSpec
ser_AsyncApiSpec(spec) ==
    LET f0 == insert(<<>>, "asyncapi", JsonStr(spec.asyncapi))
        f1 == insert(f0, "info",
                     JsonObj(insert(insert(<<>>, "title", JsonStr(spec.info.title)),
                                    "version", JsonStr(spec.info.version))))
        f2 == ser_field(f1, "servers",
                        IF spec.servers = None THEN None
                        ELSE Some(JsonObj([k \in DOMAIN Unwrap(spec.servers) |->
                                              ser_Server(Unwrap(spec.servers)[k])])))
        f3 == insert(f2, "channels",
                     JsonObj([k \in DOMAIN spec.channels |->
                                 ser_Channel(spec.channels[k])]))
        f4 == ser_field(f3, "operations",
                        IF spec.operations = None THEN None
                        ELSE Some(JsonObj([k \in DOMAIN Unwrap(spec.operations) |->
                                              ser_Operation(Unwrap(spec.operations)[k])])))
        f5 == ser_field(f4, "components",
                        IF spec.components = None THEN None
                        ELSE Some(ser_Components(Unwrap(spec.components))))
        f6 == ser_field(f5, "tags", spec.tags)
    IN  JsonObj(f6)

de_AsyncApiSpec(w) ==
    IF w.t # "object" \/ {"asyncapi", "info", "channels"} \ DOMAIN w.o # {} THEN None
    ELSE LET sw == get(w, "servers")
             ow == get(w, "operations")
             cw == get(w, "components")
             sv == IF sw = None THEN <<>>
                   ELSE [k \in DOMAIN Unwrap(sw).o |-> de_Server(Unwrap(sw).o[k])]
             ch == [k \in DOMAIN w.o["channels"].o |->
                       de_Channel(w.o["channels"].o[k])]
             ops == IF ow = None THEN <<>>
                    ELSE [k \in DOMAIN Unwrap(ow).o |-> de_Operation(Unwrap(ow).o[k])]
             co == IF cw = None THEN None ELSE de_Components(Unwrap(cw))
         IN  IF \/ \E k \in DOMAIN sv : sv[k] = None
                \/ \E k \in DOMAIN ch : ch[k] = None
                \/ \E k \in DOMAIN ops : ops[k] = None
                \/ (cw # None /\ co = None)
             THEN None
             ELSE Some([asyncapi |-> w.o["asyncapi"].s,
                        info |-> [title |-> w.o["info"].o["title"].s,
                                  version |-> w.o["info"].o["version"].s],
                        servers |-> IF sw = None THEN None
                                    ELSE Some([k \in DOMAIN sv |-> Unwrap(sv[k])]),
                        channels |-> [k \in DOMAIN ch |-> Unwrap(ch[k])],
                        operations |-> IF ow = None THEN None
                                       ELSE Some([k \in DOMAIN ops |-> Unwrap(ops[k])]),
                        components |-> co,
                        tags |-> get(w, "tags")])

\* to_json: the document as JSON; from_json: the derived Deserialize of
\* AsyncApiSpec on that JSON
to_json(spec) == ser_AsyncApiSpec(spec)

from_json(w) == de_AsyncApiSpec(w)

\* validate_spec accepts the document
Valid(d) == \A ord \in Orders(d) : validate_spec(d, ord) = Ok

\* to_json(&spec)
ToJson ==
    /\ conv.pc = "spec"
    /\ conv' = [conv EXCEPT !.pc = "wire", !.wire = Some(to_json(doc))]
    /\ UNCHANGED <<doc, pc, result, ref_bindings, builder_vars, cache_vars>>

\* the serialized document is parsed back
FromJson ==
    /\ conv.pc = "wire"
    /\ conv' = [conv EXCEPT !.pc = "parsed", !.out = from_json(Unwrap(conv.wire))]
    /\ UNCHANGED <<doc, pc, result, ref_bindings, builder_vars, cache_vars>>

CodecInit ==
    /\ ref_bindings \in {"skipped", "serialized"}
    /\ doc \in {d \in MessageDocs \cup ServerDocs \cup OperationDocs \cup MixedDocs :
                   Valid(d)}
    /\ conv = [pc |-> "spec", wire |-> None, out |-> None]
    /\ pc = "built"
    /\ result = Ok
    /\ builder = new
    /\ built = None
    /\ calls = 0
    /\ discarded = {}
    /\ CacheInit

CodecNext == ToJson \/ FromJson

CodecSpec == CodecInit /\ [][CodecNext]_vars

(***************************************************************************)
(* protocol::mqtt::MqttQos: a level is converted with as_u8 and the byte   *)
(* converted back with from_u8, or from_u8 is handed a byte directly.      *)
(***************************************************************************)
\* enum MqttQos
MqttQos == {"AtMostOnce", "AtLeastOnce", "ExactlyOnce"}

\* the largest u8
U8Max == 255
U8 == 0..U8Max

\* MqttQos::as_u8 on the level at hand
AsU8 ==
    /\ conv.pc = "level"
    /\ conv' = [conv EXCEPT !.pc = "byte", !.u = as_u8(conv.q)]
    /\ UNCHANGED <<doc, pc, result, ref_bindings, builder_vars, cache_vars>>

\* MqttQos::from_u8 on the byte at hand
FromU8 ==
    /\ conv.pc = "byte"
    /\ conv' = [conv EXCEPT !.pc = "decoded", !.out = from_u8(conv.u)]
    /\ UNCHANGED <<doc, pc, result, ref_bindings, builder_vars, cache_vars>>

QosInit ==
    /\ \/ \E q \in MqttQos :
             conv = [pc |-> "level", from |-> "level", q |-> q, u |-> 0, out |-> None]
       \/ \E u \in U8 :
             conv = [pc |-> "byte", from |-> "byte", q |-> "AtMostOnce", u |-> u,
                     out |-> None]
    /\ CacheInit
    /\ doc = new.spec
    /\ pc = "idle"
    /\ result = Ok
    /\ ref_bindings = "skipped"
    /\ builder = new
    /\ built = None
    /\ calls = 0
    /\ discarded = {}

QosNext == AsU8 \/ FromU8

QosSpec == QosInit /\ [][QosNext]_vars

(***************************************************************************)
(* schema::generator::generate_schema, one action per step of a call       *)
(***************************************************************************)
\* HashMap::get under the lock the caller holds
cache_get(c, T) == IF IsSome(c.writing) THEN Some(Torn) ELSE c.map[T]

\* generator.rs 44-45: a call of generate_schema::<T>() starts
Call(t) ==
    /\ thread[t].pc = "idle"
    /\ thread[t].n < MaxSchemaCalls
    /\ \E T \in TypeIds :
          thread' = [thread EXCEPT ![t] = [pc |-> "read_lock", type_id |-> T,
                                           value |-> None, ret |-> None, runs |-> 0,
                                           n |-> thread[t].n + 1, missed |-> FALSE,
                                           seen |-> 0]]
    /\ hist' = [hist EXCEPT !.concurrent =
                    @ \/ \E u \in Threads \ {t} : thread[u].pc # "idle"]
    /\ UNCHANGED <<SCHEMA_CACHE, other_vars>>

\* mutant: the read lock is granted while a writer holds the lock
AcquireReadUnguarded(t) ==
    /\ thread[t].pc = "read_lock"
    /\ SCHEMA_CACHE' = [SCHEMA_CACHE EXCEPT !.readers = @ \cup {t}]
    /\ thread' = [thread EXCEPT ![t].pc = "lookup"]
    /\ UNCHANGED <<hist, other_vars>>

\* generator.rs 49: SCHEMA_CACHE.read() returns when no writer holds the lock
AcquireRead(t) ==
    /\ thread[t].pc = "read_lock"
    /\ SCHEMA_CACHE.writer = None
    /\ SCHEMA_CACHE' = [SCHEMA_CACHE EXCEPT !.readers = @ \cup {t}]
    /\ thread' = [thread EXCEPT ![t].pc = "lookup"]
    /\ UNCHANGED <<hist, other_vars>>

\* mutant: on a miss the read guard is kept
LookupHolding(t) ==
    /\ thread[t].pc = "lookup"
    /\ LET cached == cache_get(SCHEMA_CACHE, thread[t].type_id)
       IN  /\ thread' = [thread EXCEPT ![t] =
                  IF IsSome(cached)
                  THEN [@ EXCEPT !.pc = "idle", !.ret = Some(SchemaOk(Unwrap(cached))),
                                 !.seen = hist.stores[thread[t].type_id]]
                  ELSE [@ EXCEPT !.pc = "generate", !.missed = TRUE,
                                 !.seen = hist.stores[thread[t].type_id]]]
           /\ SCHEMA_CACHE' = IF IsSome(cached)
                              THEN [SCHEMA_CACHE EXCEPT !.readers = @ \ {t}]
                              ELSE SCHEMA_CACHE
           /\ hist' = IF IsSome(cached)
                      THEN [hist EXCEPT !.returned[thread[t].type_id] =
                                            @ \cup {Unwrap(cached)}]
                      ELSE hist
    /\ UNCHANGED other_vars

\* mutant: the lookup never finds an entry
LookupAlwaysMiss(t) ==
    /\ thread[t].pc = "lookup"
    /\ thread' = [thread EXCEPT ![t].pc = "generate", ![t].missed = TRUE,
                                ![t].seen = hist.stores[thread[t].type_id]]
    /\ SCHEMA_CACHE' = [SCHEMA_CACHE EXCEPT !.readers = @ \ {t}]
    /\ UNCHANGED <<hist, other_vars>>

\* generator.rs 51-55: cache.get; on a hit the clone is returned, either way
\* the read guard is dropped
Lookup(t) ==
    /\ thread[t].pc = "lookup"
    /\ LET cached == cache_get(SCHEMA_CACHE, thread[t].type_id)
       IN  thread' = [thread EXCEPT ![t] =
                IF IsSome(cached)
                THEN [@ EXCEPT !.pc = "idle", !.ret = Some(SchemaOk(Unwrap(cached))),
                               !.seen = hist.stores[thread[t].type_id]]
                ELSE [@ EXCEPT !.pc = "generate", !.missed = TRUE,
                               !.seen = hist.stores[thread[t].type_id]]]
    /\ SCHEMA_CACHE' = [SCHEMA_CACHE EXCEPT !.readers = @ \ {t}]
    /\ LET cached == cache_get(SCHEMA_CACHE, thread[t].type_id)
       IN  hist' = IF IsSome(cached)
                   THEN [hist EXCEPT !.returned[thread[t].type_id] =
                                         @ \cup {Unwrap(cached)}]
                   ELSE hist
    /\ UNCHANGED other_vars

\* mutant: the generated value is returned without being stored
GenerateUnstored(t) ==
    /\ thread[t].pc = "generate"
    /\ thread' = [thread EXCEPT ![t].pc = "return",
                                ![t].value = Some(Schema(thread[t].type_id)),
                                ![t].runs = @ + 1]
    /\ hist' = [hist EXCEPT !.runs[thread[t].type_id] = @ + 1,
                            !.ok[thread[t].type_id] = @ + 1]
    /\ UNCHANGED <<SCHEMA_CACHE, other_vars>>

\* generator.rs 61-64: the generator runs and succeeds
Generate(t) ==
    /\ thread[t].pc = "generate"
    /\ thread' = [thread EXCEPT ![t].pc = "write_lock",
                                ![t].value = Some(Schema(thread[t].type_id)),
                                ![t].runs = @ + 1]
    /\ hist' = [hist EXCEPT !.runs[thread[t].type_id] = @ + 1,
                            !.ok[thread[t].type_id] = @ + 1]
    /\ UNCHANGED <<SCHEMA_CACHE, other_vars>>

\* mutant: the failed generation leaves an entry in the cache
GenerateFailCached(t) ==
    /\ thread[t].pc = "generate"
    /\ thread' = [thread EXCEPT ![t].pc = "idle", ![t].ret = Some(SchemaErr),
                                ![t].runs = @ + 1]
    /\ hist' = [hist EXCEPT !.runs[thread[t].type_id] = @ + 1]
    /\ SCHEMA_CACHE' = [SCHEMA_CACHE EXCEPT !.map[thread[t].type_id] = Some(Torn)]
    /\ UNCHANGED other_vars

\* generator.rs 61-64: the generator runs and to_value fails; the error is
\* returned
GenerateFail(t) ==
    /\ thread[t].pc = "generate"
    /\ thread' = [thread EXCEPT ![t].pc = "idle", ![t].ret = Some(SchemaErr),
                                ![t].runs = @ + 1]
    /\ hist' = [hist EXCEPT !.runs[thread[t].type_id] = @ + 1]
    /\ UNCHANGED <<SCHEMA_CACHE, other_vars>>

\* generator.rs 69: SCHEMA_CACHE.write() returns when nobody holds the lock
AcquireWrite(t) ==
    /\ thread[t].pc = "write_lock"
    /\ SCHEMA_CACHE.writer = None
    /\ SCHEMA_CACHE.readers = {}
    /\ SCHEMA_CACHE' = [SCHEMA_CACHE EXCEPT !.writer = Some(t)]
    /\ thread' = [thread EXCEPT ![t].pc = "insert"]
    /\ UNCHANGED <<hist, other_vars>>

\* generator.rs 71: cache.insert starts writing the entry
InsertBegin(t) ==
    /\ thread[t].pc = "insert"
    /\ SCHEMA_CACHE' = [SCHEMA_CACHE EXCEPT !.writing = Some(thread[t].type_id)]
    /\ thread' = [thread EXCEPT ![t].pc = "inserting"]
    /\ UNCHANGED <<hist, other_vars>>

\* mutant: the insert evicts the entries of the other types
InsertEndEvicting(t) ==
    /\ thread[t].pc = "inserting"
    /\ SCHEMA_CACHE' = [SCHEMA_CACHE EXCEPT
            !.map = [T \in TypeIds |-> IF T = thread[t].type_id THEN thread[t].value
                                        ELSE None],
            !.writing = None, !.writer = None]
    /\ thread' = [thread EXCEPT ![t].pc = "return"]
    /\ hist' = [hist EXCEPT !.stores[thread[t].type_id] = @ + 1]
    /\ UNCHANGED other_vars

\* mutant: the insert completes without leaving the entry in the map
InsertEndLost(t) ==
    /\ thread[t].pc = "inserting"
    /\ SCHEMA_CACHE' = [SCHEMA_CACHE EXCEPT !.writing = None, !.writer = None]
    /\ thread' = [thread EXCEPT ![t].pc = "return"]
    /\ hist' = [hist EXCEPT !.stores[thread[t].type_id] = @ + 1]
    /\ UNCHANGED other_vars

\* generator.rs 71-72: the entry is written and the write guard is dropped
InsertEnd(t) ==
    /\ thread[t].pc = "inserting"
    /\ SCHEMA_CACHE' = [SCHEMA_CACHE EXCEPT !.map[thread[t].type_id] = thread[t].value,
                                            !.writing = None, !.writer = None]
    /\ thread' = [thread EXCEPT ![t].pc = "return"]
    /\ hist' = [hist EXCEPT !.stores[thread[t].type_id] = @ + 1]
    /\ UNCHANGED other_vars

\* generator.rs 74: Ok(value)
Return(t) ==
    /\ thread[t].pc = "return"
    /\ thread' = [thread EXCEPT ![t].pc = "idle",
                                ![t].ret = Some(SchemaOk(Unwrap(thread[t].value)))]
    /\ hist' = [hist EXCEPT !.returned[thread[t].type_id] =
                                @ \cup {Unwrap(thread[t].value)}]
    /\ UNCHANGED <<SCHEMA_CACHE, other_vars>>

CacheSpecInit ==
    /\ CacheInit
    /\ conv = ConvIdle
    /\ doc = new.spec
    /\ pc = "idle"
    /\ result = Ok
    /\ ref_bindings = "skipped"
    /\ builder = new
    /\ built = None
    /\ calls = 0
    /\ discarded = {}

CacheNext ==
    \E t \in Threads :
        \/ Call(t) \/ AcquireRead(t) \/ Lookup(t) \/ Generate(t) \/ GenerateFail(t)
        \/ AcquireWrite(t) \/ InsertBegin(t) \/ InsertEnd(t) \/ Return(t)

CacheSpec == CacheSpecInit /\ [][CacheNext]_vars

\* a step of the call thread t is in
Step(t) ==
    \/ AcquireRead(t) \/ Lookup(t) \/ Generate(t) \/ GenerateFail(t)
    \/ AcquireWrite(t) \/ InsertBegin(t) \/ InsertEnd(t) \/ Return(t)

\* fair scheduling: a thread whose call can take its next step, and keeps
\* being able to, eventually takes it
CacheFairSpec == CacheSpec /\ \A t \in Threads : WF_vars(Step(t))

(***************************************************************************)
(* Properties of documents, stated on the document alone                   *)
(***************************************************************************)
Done == pc = "validated"

EnabledProtocols == {"nats", "kafka", "mqtt"}

ServerMap(d) == IF d.servers = None THEN <<>> ELSE d.servers[1]

OperationMap(d) == IF d.operations = None THEN <<>> ELSE d.operations[1]

ComponentMap(d) ==
    IF d.components = None THEN <<>>
    ELSE IF d.components[1].messages = None THEN <<>>
    ELSE d.components[1].messages[1]

\* <<channel, name>> of every entry of every channel message map
Entries(d) ==
    UNION {{<<c, m>> : m \in DOMAIN d.channels[c].messages} : c \in DOMAIN d.channels}

EntryOf(d, e) == d.channels[e[1]].messages[e[2]]

InlineEntries(d) == {e \in Entries(d) : EntryOf(d, e).tag = "Message"}

RefEntries(d) == {e \in Entries(d) : EntryOf(d, e).tag = "Ref"}

\* every message of the document: inline channel messages and component messages
Occurrences(d) ==
    {<<"channel", e[1], e[2]>> : e \in InlineEntries(d)}
        \cup {<<"component", n, n>> : n \in DOMAIN ComponentMap(d)}

MessageAt(d, o) ==
    IF o[1] = "channel" THEN d.channels[o[2]].messages[o[3]].message
    ELSE ComponentMap(d)[o[2]]

HeaderOk(d) ==
    d.asyncapi = "3.0.0" /\ d.info.title # "" /\ d.info.version # ""

HasChannels(d) == DOMAIN d.channels # {}

EmptyChannelsOf(d) == {c \in DOMAIN d.channels : DOMAIN d.channels[c].messages = {}}

\* <<channel, server>> for every server name a channel lists
ServerRefs(d) ==
    UNION {IF d.channels[c].servers = None THEN {}
           ELSE {<<c, d.channels[c].servers[1][i]>> :
                    i \in DOMAIN d.channels[c].servers[1]} : c \in DOMAIN d.channels}

MissingServerRefs(d) == {r \in ServerRefs(d) : r[2] \notin DOMAIN ServerMap(d)}

\* the two reference shapes of the data model
IsComponentPath(p) ==
    Len(p) = 4 /\ p[1] = "#" /\ p[2] = "components" /\ p[3] = "messages"

IsChannelMessagePath(p) ==
    Len(p) = 5 /\ p[1] = "#" /\ p[2] = "channels" /\ p[4] = "messages"

ComponentPathResolves(d, p) ==
    IsComponentPath(p) /\ p[4] \in DOMAIN ComponentMap(d)

Resolves(d, p) ==
    \/ ComponentPathResolves(d, p)
    \/ /\ IsChannelMessagePath(p)
       /\ p[3] \in DOMAIN d.channels
       /\ p[5] \in DOMAIN d.channels[p[3]].messages

MessageRefsOk(d) == \A e \in RefEntries(d) : Resolves(d, EntryOf(d, e).ref_path)

NullSchemas(d) == {o \in Occurrences(d) : MessageAt(d, o).payload.schema.t = "null"}

DuplicateIds(d) ==
    \E o1, o2 \in Occurrences(d) :
        /\ o1 # o2
        /\ MessageAt(d, o1).message_id # None
        /\ MessageAt(d, o1).message_id = MessageAt(d, o2).message_id

HasPrefix(p, pre) == Len(p) > Len(pre) /\ \A i \in 1..Len(pre) : p[i] = pre[i]

\* operations with a channel reference that lacks "#/channels/"
BadChannelOps(d) ==
    {o \in DOMAIN OperationMap(d) :
        ~HasPrefix(OperationMap(d)[o].channel, <<"#", "channels">>)}

OpMessageOk(d, p) ==
    \/ HasPrefix(p, <<"#", "channels">>)
    \/ ComponentPathResolves(d, p)

\* operations with a message reference of a wrong shape or unresolved
BadMessageOps(d) ==
    {o \in DOMAIN OperationMap(d) :
        \E i \in DOMAIN OperationMap(d)[o].messages :
            ~OpMessageOk(d, OperationMap(d)[o].messages[i])}

OperationsOk(d) == BadChannelOps(d) = {} /\ BadMessageOps(d) = {}

UnsupportedServers(d) ==
    {s \in DOMAIN ServerMap(d) : ServerMap(d)[s].protocol \notin EnabledProtocols}

\* a channel's bindings are absent, or inline with the key of the protocol of
\* the first server the channel lists (no key is required without servers)
BindingsOk(d) ==
    \A c \in DOMAIN d.channels :
        LET ch == d.channels[c]
        IN  \/ ch.bindings = None
            \/ /\ ch.bindings[1].tag = "Bindings"
               /\ \/ ch.servers = None
                  \/ ch.servers[1] = <<>>
                  \/ ch.servers[1][1] \notin DOMAIN ServerMap(d)
                  \/ /\ ch.bindings[1].value.t = "object"
                     /\ ServerMap(d)[ch.servers[1][1]].protocol
                            \in DOMAIN ch.bindings[1].value.o

\* the message entries pass the per-channel checks
MessagesClean(d) ==
    /\ MessageRefsOk(d)
    /\ \A o \in Occurrences(d) : o[1] = "channel" => o \notin NullSchemas(d)
    /\ \A o1, o2 \in Occurrences(d) :
          (o1[1] = "channel" /\ o2[1] = "channel" /\ o1 # o2
              /\ MessageAt(d, o1).message_id # None)
          => MessageAt(d, o1).message_id # MessageAt(d, o2).message_id

\* the per-channel stage finds nothing
ChannelsClean(d) ==
    /\ EmptyChannelsOf(d) = {}
    /\ MissingServerRefs(d) = {}
    /\ MessagesClean(d)

\* every invariant of the data model
WellFormed(d) ==
    /\ HeaderOk(d)
    /\ HasChannels(d)
    /\ ChannelsClean(d)
    /\ OperationsOk(d)
    /\ UnsupportedServers(d) = {}
    /\ BindingsOk(d)
    /\ NullSchemas(d) = {}
    /\ ~DuplicateIds(d)

(***************************************************************************)
(* Claims                                                                  *)
(***************************************************************************)

\* C1 (as stated): a document with the supported version, non-empty title and
\* version, at least one channel, no channel without messages, consistent
\* server, channel and message references and unique message-ids validates.
C1_AsStated ==
    (Done /\ HeaderOk(doc) /\ HasChannels(doc) /\ EmptyChannelsOf(doc) = {}
        /\ MissingServerRefs(doc) = {} /\ MessageRefsOk(doc) /\ OperationsOk(doc)
        /\ ~DuplicateIds(doc))
    => result = Ok

\* C1 (amended): a document that moreover has no null payload schema, only
\* enabled server protocols and bindings matching the channel's protocol
\* validates, under every iteration order.
C1_WellFormedAccepted == (Done /\ WellFormed(doc)) => result = Ok

C1_Witness ==
    /\ Done /\ WellFormed(doc) /\ result = Ok
    /\ Cardinality(DOMAIN doc.channels) = 2
    /\ RefEntries(doc) # {}
    /\ \E n \in DOMAIN ComponentMap(doc) : ComponentMap(doc)[n].message_id # None

\* C2 (as stated): every document with zero channels yields empty-channels.
C2_AsStated == (Done /\ ~HasChannels(doc)) => result.kind = "EmptyChannels"

\* C2 (amended): a document with zero channels whose version is the supported
\* one and whose title and version are non-empty yields empty-channels.
C2_EmptyChannels ==
    (Done /\ HeaderOk(doc) /\ ~HasChannels(doc)) => result = Err("EmptyChannels", <<>>)

C2_Witness ==
    /\ Done /\ HeaderOk(doc) /\ ~HasChannels(doc) /\ result.kind = "EmptyChannels"
    /\ doc.components # None

\* C3 (as stated): every document with a channel without messages yields
\* channel-without-messages naming such a channel.
C3_AsStated ==
    (Done /\ EmptyChannelsOf(doc) # {})
    => /\ result.kind = "ChannelWithoutMessages"
       /\ Len(result.arg) = 1
       /\ result.arg[1] \in EmptyChannelsOf(doc)

\* C3 (amended): with a valid version and info, a document with a channel
\* without messages fails in the per-channel stage; channel-without-messages
\* always names a channel without messages, and it is the error whenever the
\* channels that have messages pass the per-channel checks.
C3_ChannelWithoutMessages ==
    (Done /\ HeaderOk(doc) /\ EmptyChannelsOf(doc) # {})
    => /\ result.kind \in {"ChannelWithoutMessages", "InvalidServerReference",
                           "InvalidSchema", "DuplicateMessageId"}
       /\ result.kind = "ChannelWithoutMessages"
            => \E c \in EmptyChannelsOf(doc) : result.arg = <<c>>
       /\ ((\A r \in MissingServerRefs(doc) : r[1] \in EmptyChannelsOf(doc))
              /\ MessagesClean(doc))
            => result.kind = "ChannelWithoutMessages"

C3_Witness ==
    /\ Done /\ HeaderOk(doc)
    /\ EmptyChannelsOf(doc) # {} /\ EmptyChannelsOf(doc) # DOMAIN doc.channels
    /\ result.kind = "ChannelWithoutMessages"

C5_AsStated ==
    (Done /\ MissingServerRefs(doc) # {})
    => /\ result.kind = "InvalidServerReference"
       /\ \E r \in MissingServerRefs(doc) : result.arg = <<r[2]>>

\* C5 (amended): a document in which a channel lists a server missing from the
\* server map (or there is no server map) never validates;
\* invalid-server-reference always names such a server, and it is the error
\* when version and info are valid, every channel has messages and the message
\* entries pass the per-channel checks.
C5_InvalidServerReference ==
    (Done /\ MissingServerRefs(doc) # {})
    => /\ result # Ok
       /\ result.kind = "InvalidServerReference"
            => \E r \in MissingServerRefs(doc) : result.arg = <<r[2]>>
       /\ (HeaderOk(doc) /\ EmptyChannelsOf(doc) = {} /\ MessagesClean(doc))
            => result.kind = "InvalidServerReference"

C5_Witness ==
    /\ Done /\ result = Err("InvalidServerReference", <<"prod">>)
    /\ doc.servers # None /\ "dev" \in DOMAIN ServerMap(doc)
    /\ \E c \in DOMAIN doc.channels : doc.channels[c].servers = Some(<<"dev", "prod">>)

\* C6: whenever the document validates, every reference entry of every channel
\* message map has one of the two shapes and names an existing component
\* message or an existing message of an existing channel (equivalently: a
\* reference of another shape or an unresolved one makes validation fail).
C6_ReferencesResolve ==
    (Done /\ result = Ok)
    => \A e \in RefEntries(doc) : Resolves(doc, EntryOf(doc, e).ref_path)

\* C7: whenever the document validates, no two messages among the inline
\* channel messages and the component messages carry the same message-id.
C7_UniqueIds == (Done /\ result = Ok) => ~DuplicateIds(doc)

C7_Witness ==
    /\ Done /\ result = Ok
    /\ \E o1, o2 \in Occurrences(doc) :
          /\ o1[1] = "channel" /\ o2[1] = "component"
          /\ MessageAt(doc, o1).message_id # None
          /\ MessageAt(doc, o2).message_id # None

\* C8 (as stated): a document with a null payload schema in an inline or a
\* component message fails with invalid-schema.
C8_AsStated == (Done /\ NullSchemas(doc) # {}) => result.kind = "InvalidSchema"

\* C8 (amended): a document with a null payload schema in an inline or a
\* component message never validates, and fails with invalid-schema (null
\* schema) when the null schemas are its only violation.
C8_NullSchema ==
    (Done /\ NullSchemas(doc) # {})
    => /\ result # Ok
       /\ (HeaderOk(doc) /\ HasChannels(doc) /\ EmptyChannelsOf(doc) = {}
              /\ MissingServerRefs(doc) = {} /\ MessageRefsOk(doc) /\ OperationsOk(doc)
              /\ UnsupportedServers(doc) = {} /\ BindingsOk(doc) /\ ~DuplicateIds(doc))
            => /\ result.kind = "InvalidSchema"
               /\ result.arg[1] \in {"null schema", "component null schema"}

\* a component message with a null schema that nothing references
C8_Witness ==
    /\ Done /\ result.kind = "InvalidSchema" /\ result.arg[1] = "component null schema"
    /\ RefEntries(doc) = {} /\ doc.operations = None

\* C9 (as stated): a validated document's operations have well-shaped and
\* resolved references; a channel reference without the prefix fails with
\* invalid-channel-reference carrying the path and a bad or unresolved message
\* reference fails with invalid-schema.
C9_AsStated ==
    /\ (Done /\ result = Ok) => OperationsOk(doc)
    /\ (Done /\ BadChannelOps(doc) # {})
         => /\ result.kind = "InvalidChannelReference"
            /\ \E o \in BadChannelOps(doc) : result.arg = OperationMap(doc)[o].channel
    /\ (Done /\ BadChannelOps(doc) = {} /\ BadMessageOps(doc) # {})
         => result.kind = "InvalidSchema"

\* C9 (amended): a validated document's operations have well-shaped and
\* resolved references; invalid-channel-reference always carries the path of a
\* channel reference without the prefix; and in a document that passes the
\* version, info and channel stages a faulty operation makes validation fail
\* with invalid-channel-reference (only possible for a channel reference
\* without the prefix) or invalid-schema naming an operation with a bad or
\* unresolved message reference.
C9_Operations ==
    /\ (Done /\ result = Ok) => OperationsOk(doc)
    /\ (Done /\ result.kind = "InvalidChannelReference")
         => \E o \in BadChannelOps(doc) : result.arg = OperationMap(doc)[o].channel
    /\ (Done /\ HeaderOk(doc) /\ HasChannels(doc) /\ ChannelsClean(doc)
           /\ ~OperationsOk(doc))
         => /\ result.kind \in {"InvalidChannelReference", "InvalidSchema"}
            /\ BadMessageOps(doc) = {} => result.kind = "InvalidChannelReference"
            /\ BadChannelOps(doc) = {} => result.kind = "InvalidSchema"
            /\ result.kind = "InvalidSchema" => result.arg[2] \in BadMessageOps(doc)

C9_Witness ==
    /\ Done /\ result = Err("InvalidChannelReference", <<"channels", "a">>)
    /\ Cardinality(DOMAIN OperationMap(doc)) = 2
    /\ BadMessageOps(doc) # {}

\* C10: validation succeeds only if every server's protocol identifier is
\* exactly nats, kafka or mqtt, whether or not a channel lists the server;
\* validate_protocol succeeds exactly on these identifiers and otherwise
\* returns unsupported-protocol listing them, which validate_spec reports as
\* invalid-protocol naming the server and the protocol.
C10_Protocols ==
    /\ (Done /\ result = Ok) => UnsupportedServers(doc) = {}
    /\ \A s \in DOMAIN ServerMap(doc) :
          LET id == ServerMap(doc)[s].protocol
          IN  /\ validate_protocol(id) = Ok <=> id \in EnabledProtocols
              /\ id \notin EnabledProtocols
                   => validate_protocol(id)
                        = Err("UnsupportedProtocol", <<id, "nats", "kafka", "mqtt">>)
    /\ (Done /\ result.kind = "InvalidProtocol")
         => \E s \in UnsupportedServers(doc) :
               result.arg = <<s, ServerMap(doc)[s].protocol, "nats", "kafka", "mqtt">>
    /\ (Done /\ HeaderOk(doc) /\ HasChannels(doc) /\ ChannelsClean(doc)
           /\ OperationsOk(doc) /\ UnsupportedServers(doc) # {})
         => result.kind = "InvalidProtocol"

\* an unsupported server that no channel lists
C10_Witness ==
    /\ Done /\ result.kind = "InvalidProtocol"
    /\ ServerRefs(doc) = {}
    /\ Cardinality(DOMAIN ServerMap(doc)) = 2
    /\ Cardinality(UnsupportedServers(doc)) = 1

\* the protocol of the first server a channel lists that the server map holds
EffectiveProtocol(d, c) ==
    LET ch == d.channels[c]
        hits == IF ch.servers = None THEN {}
                ELSE {i \in DOMAIN ch.servers[1] : ch.servers[1][i] \in DOMAIN ServerMap(d)}
    IN  IF hits = {} THEN None
        ELSE LET i == CHOOSE k \in hits : \A j \in hits : k <= j
             IN  Some(ServerMap(d)[ch.servers[1][i]].protocol)

HasInlineBindings(d, c) ==
    d.channels[c].bindings # None /\ d.channels[c].bindings[1].tag = "Bindings"

\* channels with inline bindings and a known effective protocol
BoundChannels(d) ==
    {c \in DOMAIN d.channels :
        /\ HasInlineBindings(d, c)
        /\ EffectiveProtocol(d, c) # None
        /\ EffectiveProtocol(d, c)[1] \in EnabledProtocols}

\* the inline bindings of c are an object with the key of c's protocol
BindingsKeyPresent(d, c) ==
    LET v == d.channels[c].bindings[1].value
    IN  v.t = "object" /\ EffectiveProtocol(d, c)[1] \in DOMAIN v.o

MismatchedChannels(d) == {c \in BoundChannels(d) : ~BindingsKeyPresent(d, c)}

\* C11 (as stated): for a channel with inline bindings whose server references
\* resolve to kafka, mqtt or nats, validation succeeds only if the bindings are
\* an object holding the protocol's name as a key, and otherwise fails with
\* invalid-schema naming the channel.
C11_AsStated ==
    Done => \A c \in BoundChannels(doc) :
                IF BindingsKeyPresent(doc, c)
                THEN TRUE
                ELSE /\ result.kind = "InvalidSchema"
                     /\ Len(result.arg) = 3 /\ result.arg[1] = "bindings"
                     /\ result.arg[2] = c

\* C11 (amended): for such a channel validation succeeds only if the bindings
\* are an object holding the protocol's name as a key; the bindings error
\* always names a channel whose bindings lack the key of its protocol; and
\* when the version, info, channel, operation and server-protocol stages find
\* nothing and the mismatched channels are the only channels with bindings,
\* validation fails with invalid-schema naming a mismatched channel and its
\* protocol.
C11_BindingsKey ==
    /\ (Done /\ result = Ok) => MismatchedChannels(doc) = {}
    /\ (Done /\ result.kind = "InvalidSchema" /\ result.arg[1] = "bindings"
           /\ \A c \in DOMAIN doc.channels :
                  doc.channels[c].bindings # None => HasInlineBindings(doc, c))
         => \E c \in MismatchedChannels(doc) :
               result.arg = <<"bindings", c, EffectiveProtocol(doc, c)[1]>>
    /\ (Done /\ HeaderOk(doc) /\ HasChannels(doc) /\ ChannelsClean(doc)
           /\ OperationsOk(doc) /\ UnsupportedServers(doc) = {}
           /\ MismatchedChannels(doc) # {}
           /\ \A c \in DOMAIN doc.channels :
                  doc.channels[c].bindings # None => HasInlineBindings(doc, c))
         => \E c \in MismatchedChannels(doc) :
               result = Err("InvalidSchema",
                            <<"bindings", c, EffectiveProtocol(doc, c)[1]>>)

\* an object with other protocols' keys on a channel of a kafka server, next
\* to a second channel
C11_Witness ==
    /\ Done /\ result = Err("InvalidSchema", <<"bindings", "a", "kafka">>)
    /\ Cardinality(DOMAIN doc.channels) = 2
    /\ doc.channels["a"].bindings = InlineBindings(JsonObject({"mqtt", "nats"}))
    /\ "a" \in MismatchedChannels(doc)

\* the stages of validate_spec, in the order of the code
StageVersion == 1
StageTitle == 2
StageInfoVersion == 3
StageChannels == 4
StagePerChannel == 5
StageOperations == 6
StageProtocols == 7
StageBindings == 8
StageComponents == 9

\* channels with bindings and a known effective protocol whose bindings are
\* not an inline object holding the protocol's name
KeylessChannels(d) ==
    {c \in DOMAIN d.channels :
        /\ d.channels[c].bindings # None
        /\ EffectiveProtocol(d, c) # None
        /\ EffectiveProtocol(d, c)[1] \in EnabledProtocols
        /\ ~(HasInlineBindings(d, c) /\ BindingsKeyPresent(d, c))}

ComponentsViolated(d) ==
    \/ \E o \in NullSchemas(d) : o[1] = "component"
    \/ DuplicateIds(d)

\* the stages whose invariants the document violates
ViolatedStages(d) ==
    {n \in 1..9 :
        \/ n = StageVersion /\ d.asyncapi # "3.0.0"
        \/ n = StageTitle /\ d.info.title = ""
        \/ n = StageInfoVersion /\ d.info.version = ""
        \/ n = StageChannels /\ ~HasChannels(d)
        \/ n = StagePerChannel /\ ~ChannelsClean(d)
        \/ n = StageOperations /\ ~OperationsOk(d)
        \/ n = StageProtocols /\ UnsupportedServers(d) # {}
        \/ n = StageBindings /\ MismatchedChannels(d) # {}
        \/ n = StageComponents /\ ComponentsViolated(d)}

EarliestStage(S) == CHOOSE n \in S : \A k \in S : n <= k

\* the stage an outcome belongs to (0 for success), read off the error value
StageOfResult(d, r) ==
    IF r = Ok THEN 0
    ELSE IF r.kind = "InvalidAsyncApiVersion" THEN StageVersion
    ELSE IF r = Err("MissingRequiredField", <<"info.title">>) THEN StageTitle
    ELSE IF r = Err("MissingRequiredField", <<"info.version">>) THEN StageInfoVersion
    ELSE IF r.kind = "EmptyChannels" THEN StageChannels
    ELSE IF r.kind \in {"ChannelWithoutMessages", "InvalidServerReference"}
    THEN StagePerChannel
    ELSE IF r.kind = "DuplicateMessageId"
    THEN IF Len(r.arg) = 3 THEN StagePerChannel ELSE StageComponents
    ELSE IF r.kind = "InvalidChannelReference" THEN StageOperations
    ELSE IF r.kind = "InvalidProtocol" THEN StageProtocols
    ELSE IF r.arg[1] = "bindings" THEN StageBindings
    ELSE IF r.arg[1] = "component null schema" THEN StageComponents
    ELSE IF r.arg[2] \in DOMAIN OperationMap(d) THEN StageOperations
    ELSE StagePerChannel

\* C12: validation returns one outcome, and for a document that violates
\* invariants of several stages the reported error belongs to the earliest
\* violated stage in the order version, info.title, info.version, channel
\* non-emptiness, per-channel checks, operations, server protocols, channel
\* bindings, component messages.
C12_FailFastStaged ==
    (Done /\ Cardinality(ViolatedStages(doc)) >= 2)
    => StageOfResult(doc, result) = EarliestStage(ViolatedStages(doc))

\* the message references that validator.rs 126-186 rejects
RefRejected(d, p) ==
    IF HasPrefix(p, <<"#", "components", "messages">>) THEN ~ComponentPathResolves(d, p)
    ELSE IF HasPrefix(p, <<"#", "channels">>)
    THEN IsChannelMessagePath(p) /\ ~Resolves(d, p)
    ELSE TRUE

PerChannelDetected(d) ==
    \/ EmptyChannelsOf(d) # {}
    \/ MissingServerRefs(d) # {}
    \/ \E o \in NullSchemas(d) : o[1] = "channel"
    \/ \E o1, o2 \in Occurrences(d) :
          /\ o1[1] = "channel" /\ o2[1] = "channel" /\ o1 # o2
          /\ MessageAt(d, o1).message_id # None
          /\ MessageAt(d, o1).message_id = MessageAt(d, o2).message_id
    \/ \E e \in RefEntries(d) : RefRejected(d, EntryOf(d, e).ref_path)

\* reference bindings count in the bindings stage only when they reach it
BindingsDetected(d) ==
    \/ MismatchedChannels(d) # {}
    \/ /\ ref_bindings = "serialized"
       /\ KeylessChannels(d) # {}

DetectedStages(d) ==
    (ViolatedStages(d) \ {StagePerChannel, StageBindings})
        \cup (IF HasChannels(d) /\ PerChannelDetected(d) THEN {StagePerChannel} ELSE {})
        \cup (IF BindingsDetected(d) THEN {StageBindings} ELSE {})

\* C12 with message references judged as the per-channel stage judges them
C12_StagedAsCoded ==
    Done => StageOfResult(doc, result)
              = IF DetectedStages(doc) = {} THEN 0 ELSE EarliestStage(DetectedStages(doc))

\* the reference an invalid-schema error about a message reference is about:
\* of an operation when the error names one, else of a channel message entry
ErrorRefPaths(d, r) ==
    IF r.arg[2] \in DOMAIN OperationMap(d)
    THEN {OperationMap(d)[r.arg[2]].messages[i] :
             i \in DOMAIN OperationMap(d)[r.arg[2]].messages}
    ELSE IF <<r.arg[3], r.arg[2]>> \in RefEntries(d)
    THEN {EntryOf(d, <<r.arg[3], r.arg[2]>>).ref_path}
    ELSE {}

\* what an invalid-schema error about a reference says is true of the path
RefErrorTrue(d, r, p) ==
    LET isop == r.arg[2] \in DOMAIN OperationMap(d)
        tail == SubSeq(r.arg, IF isop THEN 3 ELSE 4, Len(r.arg))
    IN  IF r.arg[1] = "invalid message reference format"
        THEN /\ tail = p
             /\ ~HasPrefix(p, <<"#", "channels">>)
             /\ ~HasPrefix(p, <<"#", "components", "messages">>)
        ELSE IF r.arg[1] = "no components section"
        THEN HasPrefix(p, <<"#", "components", "messages">>) /\ d.components = None
        ELSE IF r.arg[1] = "no components.messages"
        THEN /\ HasPrefix(p, <<"#", "components", "messages">>)
             /\ d.components # None /\ d.components[1].messages = None
        ELSE IF r.arg[1] = "component does not exist"
        THEN /\ HasPrefix(p, <<"#", "components", "messages">>)
             /\ tail = SubSeq(p, 4, Len(p))
             /\ ~ComponentPathResolves(d, p)
        ELSE IF r.arg[1] = "referenced channel does not exist"
        THEN ~isop /\ IsChannelMessagePath(p) /\ tail = <<p[3]>>
                /\ p[3] \notin DOMAIN d.channels
        ELSE IF r.arg[1] = "referenced message does not exist"
        THEN ~isop /\ IsChannelMessagePath(p) /\ tail = <<p[3], p[5]>>
                /\ p[3] \in DOMAIN d.channels
                /\ p[5] \notin DOMAIN d.channels[p[3]].messages
        ELSE FALSE

\* the error r reports a violation that the document d has
TrueViolation(d, r) ==
    IF r.kind = "InvalidAsyncApiVersion"
    THEN r.arg = <<d.asyncapi>> /\ d.asyncapi # "3.0.0"
    ELSE IF r.kind = "MissingRequiredField"
    THEN \/ r.arg = <<"info.title">> /\ d.info.title = ""
         \/ r.arg = <<"info.version">> /\ d.info.version = ""
    ELSE IF r.kind = "EmptyChannels" THEN ~HasChannels(d)
    ELSE IF r.kind = "ChannelWithoutMessages"
    THEN \E c \in EmptyChannelsOf(d) : r.arg = <<c>>
    ELSE IF r.kind = "InvalidServerReference"
    THEN \E m \in MissingServerRefs(d) : r.arg = <<m[2]>>
    ELSE IF r.kind = "DuplicateMessageId"
    THEN \E o1, o2 \in Occurrences(d) :
            /\ o1 # o2
            /\ MessageAt(d, o1).message_id = <<r.arg[1]>>
            /\ MessageAt(d, o2).message_id = <<r.arg[1]>>
            /\ \/ o1[1] = "channel" /\ r.arg = <<r.arg[1], o1[2], o1[3]>>
               \/ o1[1] = "component" /\ r.arg = <<r.arg[1], o1[2]>>
    ELSE IF r.kind = "InvalidChannelReference"
    THEN \E o \in BadChannelOps(d) : r.arg = OperationMap(d)[o].channel
    ELSE IF r.kind = "InvalidProtocol"
    THEN \E s \in UnsupportedServers(d) :
            r.arg = <<s, ServerMap(d)[s].protocol, "nats", "kafka", "mqtt">>
    ELSE IF r.kind # "InvalidSchema" THEN FALSE
    ELSE IF r.arg[1] = "null schema"
    THEN Len(r.arg) = 3 /\ <<"channel", r.arg[3], r.arg[2]>> \in NullSchemas(d)
    ELSE IF r.arg[1] = "component null schema"
    THEN Len(r.arg) = 2 /\ <<"component", r.arg[2], r.arg[2]>> \in NullSchemas(d)
    ELSE IF r.arg[1] = "bindings"
    THEN \E c \in KeylessChannels(d) : r.arg = <<"bindings", c, EffectiveProtocol(d, c)[1]>>
    ELSE \E p \in ErrorRefPaths(d, r) : RefErrorTrue(d, r, p)

Outcomes(d) == {validate_spec(d, o) : o \in Orders(d)}

\* C14: after any sequence of builder calls build() can be called and returns
\* the accumulated document without validating it, and build_and_validate()
\* returns Ok with that same document exactly when validate_spec accepts it
\* and otherwise returns the error validate_spec reports and no document.
C14_BuildTerminal ==
    /\ pc = "building" => ENABLED Build
    /\ pc \in {"built", "validated"}
         => built = Some(builder.spec) /\ doc = builder.spec
    /\ pc = "returned"
         => /\ result \in Outcomes(builder.spec)
            /\ Ok \in Outcomes(builder.spec) => result = Ok
            /\ built = IF result = Ok THEN Some(builder.spec) ELSE None

\* build_and_validate() has returned the validator's error and no document
C14_Witness ==
    /\ pc = "returned" /\ built = None /\ calls = MaxCalls
    /\ result.kind = "DuplicateMessageId"

\* the documents of the scenario: info only; one channel "events" with one
\* inline message; a second channel with a message of the same message-id
ScenarioInfo == [title |-> "T", version |-> "1.0.0"]

Scenario1 == Document(ASYNCAPI_VERSION, "T", "1.0.0", None, <<>>, None, None)

Scenario2 ==
    Document(ASYNCAPI_VERSION, "T", "1.0.0", None,
             [x \in {"events"} |-> EventChannel], None, None)

Scenario3 ==
    Document(ASYNCAPI_VERSION, "T", "1.0.0", None,
             [x \in {"events", "orders"} |-> EventChannel], None, None)

\* C15: a builder created by new() and given info {title "T", version
\* "1.0.0"} builds a document that fails validation with empty-channels;
\* adding the channel "events" with one inline message of payload
\* {"type": "object"} gives a document that validates; adding a message of
\* the same message-id in a second channel gives a document that fails with
\* duplicate-message-id.
C15_Scenario ==
    /\ build(info(new, ScenarioInfo)) = Scenario1
    /\ build(channel(info(new, ScenarioInfo), "events", EventChannel)) = Scenario2
    /\ build(channel(channel(info(new, ScenarioInfo), "events", EventChannel),
                     "orders", EventChannel)) = Scenario3
    /\ (Done /\ doc = Scenario1) => result = Err("EmptyChannels", <<>>)
    /\ (Done /\ doc = Scenario2) => result = Ok
    /\ (Done /\ doc = Scenario3)
         => /\ result.kind = "DuplicateMessageId"
            /\ result.arg \in {<<"id1", "events", "Event">>, <<"id1", "orders", "Event">>}

\* the third document of the scenario has been built and validated
C15_Witness ==
    /\ Done /\ doc = Scenario3 /\ built = Some(Scenario3) /\ calls = 3
    /\ result.kind = "DuplicateMessageId"

\* the call thread t is in or has last made returned Ok
ReturnedOk(t) ==
    thread[t].pc = "idle" /\ thread[t].ret # None /\ thread[t].ret[1].kind = "Ok"

\* C16 (as stated): under single-threaded use all calls for a type identity
\* return the same schema value, the generator runs at most once per
\* identity, and a call that finds the type in the cache returns the cached
\* value without running the generator.
C16_AsStated ==
    ~hist.concurrent
    => /\ \A T \in TypeIds : Cardinality(hist.returned[T]) <= 1 /\ hist.runs[T] <= 1
       /\ \A t \in Threads :
             (ReturnedOk(t) /\ thread[t].runs = 0)
             => SCHEMA_CACHE.map[thread[t].type_id] = Some(thread[t].ret[1].value)

\* C16 (amended): under single-threaded use all calls for a type identity
\* that return a schema return the same value, the generator succeeds at most
\* once per identity and runs only while no run for the identity has
\* succeeded and the cache has no entry for it, and a call that finds the
\* type in the cache returns the cached value without running the generator.
C16_Idempotent ==
    ~hist.concurrent
    => /\ \A T \in TypeIds : Cardinality(hist.returned[T]) <= 1 /\ hist.ok[T] <= 1
       /\ \A t \in Threads :
             /\ thread[t].pc = "generate"
                  => /\ hist.ok[thread[t].type_id] = 0
                     /\ SCHEMA_CACHE.map[thread[t].type_id] = None
             /\ (ReturnedOk(t) /\ thread[t].runs = 0)
                  => SCHEMA_CACHE.map[thread[t].type_id] = Some(thread[t].ret[1].value)

\* a second call for a type is answered from the cache
C16_Witness ==
    /\ ~hist.concurrent
    /\ \E t \in Threads :
          /\ ReturnedOk(t) /\ thread[t].runs = 0 /\ thread[t].n = 2
          /\ hist.runs[thread[t].type_id] = 2
          /\ hist.returned[thread[t].type_id] = {Schema(thread[t].type_id)}

\* C17: on a cache miss a call runs the generator exactly once, and when
\* generation succeeds the value is stored under the requested type identity
\* before the call returns it: when a successful call returns, the cache
\* holds an entry for that type equal to the returned value.
C17_MissStores ==
    \A t \in Threads :
        /\ thread[t].runs = IF thread[t].missed /\ thread[t].pc # "generate" THEN 1 ELSE 0
        /\ thread[t].pc = "return"
             => SCHEMA_CACHE.map[thread[t].type_id] = thread[t].value
        /\ ReturnedOk(t)
             => SCHEMA_CACHE.map[thread[t].type_id] = Some(thread[t].ret[1].value)

\* a call that missed has generated, stored and returned the schema
C17_Witness ==
    \E t \in Threads :
        /\ ReturnedOk(t) /\ thread[t].missed /\ thread[t].runs = 1
        /\ hist.stores[thread[t].type_id] = 1
        /\ SCHEMA_CACHE.map[thread[t].type_id] = Some(Schema(thread[t].type_id))

\* the call thread t has last made returned an error
ReturnedErr(t) ==
    thread[t].pc = "idle" /\ thread[t].ret # None /\ thread[t].ret[1].kind # "Ok"

\* C18: when schema generation fails the error is returned to the caller and
\* the cache is left unchanged: no entry is written for the type and no other
\* entry is altered.  A later call for the same type therefore misses and runs
\* the generator again, and its result is cached if it then succeeds.
C18_FailureNotCached ==
    /\ [](\A T \in TypeIds :
            hist.ok[T] = 0 => SCHEMA_CACHE.map[T] = None /\ hist.stores[T] = 0)
    /\ [](\A t \in Threads :
            ReturnedErr(t) => thread[t].ret = Some(SchemaErr) /\ thread[t].runs = 1)
    /\ [][\A t \in Threads :
            /\ (thread[t].pc = "generate" /\ thread'[t].pc = "idle")
                 => SCHEMA_CACHE' = SCHEMA_CACHE /\ thread'[t].ret = Some(SchemaErr)
            /\ (thread[t].pc = "lookup" /\ thread'[t].pc # "lookup"
                    /\ SCHEMA_CACHE.map[thread[t].type_id] = None)
                 => thread'[t].pc = "generate"]_vars

\* a generation failed, a later call for the same type generated again and
\* its result is cached
C18_Witness ==
    \E t \in Threads :
        /\ ~hist.concurrent
        /\ ReturnedErr(t)
        /\ hist.runs[thread[t].type_id] = 2 /\ hist.ok[thread[t].type_id] = 1
        /\ SCHEMA_CACHE.map[thread[t].type_id] = Some(Schema(thread[t].type_id))
        /\ \E u \in Threads \ {t} :
              ReturnedOk(u) /\ thread[u].type_id = thread[t].type_id /\ thread[u].runs = 1

\* the threads inside the read-locked block and inside the write-locked block
Reading == {t \in Threads : thread[t].pc = "lookup"}
Writing == {t \in Threads : thread[t].pc \in {"insert", "inserting"}}

\* C19: under any interleaving of concurrent calls for the same or different
\* types a cache write excludes all reads and all other writes, readers are
\* admitted together whenever no writer holds the lock, and every value a
\* call returns is the complete generator output for the type that call
\* requested, never a partially written entry or another type's schema.
C19_ReadersWriter ==
    /\ Cardinality(Writing) <= 1
    /\ Writing # {} => Reading = {}
    /\ SCHEMA_CACHE.readers = Reading
    /\ SCHEMA_CACHE.writer # None <=> Writing # {}
    /\ SCHEMA_CACHE.writing # None => Writing # {} /\ Reading = {}
    /\ \A t \in Threads :
          /\ (thread[t].pc = "read_lock" /\ Writing = {}) => ENABLED AcquireRead(t)
          /\ ReturnedOk(t) => thread[t].ret[1].value = Schema(thread[t].type_id)
    /\ \A T \in TypeIds : hist.returned[T] \subseteq {Schema(T)}
    /\ \A T \in TypeIds : SCHEMA_CACHE.map[T] \in {None, Some(Schema(T))}

\* one thread is in the middle of writing an entry while another waits for
\* the read lock for the same type, after both types have been returned
C19_Witness ==
    /\ hist.concurrent
    /\ \E t \in Threads : \E u \in Threads \ {t} :
          /\ thread[t].pc = "inserting"
          /\ thread[u].pc = "read_lock" /\ thread[u].type_id = thread[t].type_id
    /\ \A T \in TypeIds : hist.returned[T] = {Schema(T)}

\* the call thread t is in has done its cache lookup
LookedUp(t) ==
    /\ thread[t].pc \notin {"read_lock", "lookup"}
    /\ ~(thread[t].pc = "idle" /\ thread[t].ret = None)

\* C20: under concurrent use the generator for a type runs only in calls whose
\* lookup missed before the first store for that type completed, so it runs
\* more than once only for such calls; every call whose lookup happens after
\* a store for its type has completed returns the cached value without
\* running the generator.
C20_RacingMisses ==
    \A t \in Threads :
        /\ (thread[t].missed \/ thread[t].runs > 0) => thread[t].seen = 0
        /\ (LookedUp(t) /\ thread[t].seen > 0)
             => /\ ReturnedOk(t) /\ thread[t].runs = 0
                /\ thread[t].ret[1].value = Schema(thread[t].type_id)
                /\ SCHEMA_CACHE.map[thread[t].type_id] = Some(thread[t].ret[1].value)

\* two calls missed together and both generated and stored; a later call for
\* the type is answered from the cache
C20_Witness ==
    \E t \in Threads :
        /\ hist.concurrent
        /\ hist.ok[thread[t].type_id] = 2 /\ hist.stores[thread[t].type_id] = 2
        /\ ReturnedOk(t) /\ thread[t].runs = 0 /\ thread[t].seen = 2

\* C21: cache entries are never evicted or changed: once an entry for a type
\* identity has been stored it stays present with the same value after every
\* later step of any call for that type or any other type; a racing second
\* store for the same type writes an equal value.
C21_EntriesPersist ==
    /\ [](\A T \in TypeIds :
            hist.stores[T] > 0 => SCHEMA_CACHE.map[T] = Some(Schema(T)))
    /\ [][\A T \in TypeIds :
            SCHEMA_CACHE.map[T] # None => SCHEMA_CACHE'.map[T] = SCHEMA_CACHE.map[T]]_vars

\* both types are stored, one of them twice by racing calls
C21_Witness ==
    /\ \A T \in TypeIds : SCHEMA_CACHE.map[T] = Some(Schema(T))
    /\ \E T \in TypeIds : hist.stores[T] = 2
    /\ \E T \in TypeIds : hist.stores[T] = 1

\* C22: the MQTT quality-of-service conversion is a lossless round trip:
\* as_u8 gives 0, 1, 2 for at-most-once, at-least-once, exactly-once,
\* from_u8(as_u8(q)) = Some(q) for each level q, and from_u8 of every u8
\* outside {0, 1, 2} is None rather than a default level.
C22_QosRoundTrip ==
    /\ (conv.pc \in {"byte", "decoded"} /\ conv.from = "level")
         => conv.u = IF conv.q = "AtMostOnce" THEN 0
                     ELSE IF conv.q = "AtLeastOnce" THEN 1 ELSE 2
    /\ (conv.pc = "decoded" /\ conv.from = "level") => conv.out = Some(conv.q)
    /\ (conv.pc = "decoded" /\ conv.u \notin {0, 1, 2}) => conv.out = None

\* exactly-once has been encoded as 2 and decoded back
C22_Witness ==
    /\ conv.pc = "decoded" /\ conv.from = "level"
    /\ conv.q = "ExactlyOnce" /\ conv.u = 2 /\ conv.out = Some("ExactlyOnce")

\* channel ch is channel given with, as its inline bindings, an object whose
\* single key is protocol and whose value holds expected[k] under k for
\* every parameter k that was supplied, and no k that was not
ReadsBack(ch, given, protocol, expected) ==
    /\ [ch EXCEPT !.bindings = None] = [given EXCEPT !.bindings = None]
    /\ ch.bindings # None
    /\ ch.bindings[1].tag = "Bindings"
    /\ LET v == ch.bindings[1].value
       IN  /\ v.t = "object"
           /\ DOMAIN v.o = {protocol}
           /\ v.o[protocol].t = "object"
           /\ \A k \in DOMAIN expected :
                 IF expected[k] = None THEN k \notin DOMAIN v.o[protocol].o
                 ELSE k \in DOMAIN v.o[protocol].o
                      /\ v.o[protocol].o[k] = expected[k][1]

\* the JSON number, string or boolean an optional parameter reads back as
ExpectedStr(opt) == IF opt = None THEN None ELSE Some(JsonStr(opt[1]))
ExpectedNum(opt) == IF opt = None THEN None ELSE Some(JsonNum(opt[1]))
ExpectedBool(opt) == IF opt = None THEN None ELSE Some(JsonBool(opt[1]))
ExpectedQos(opt) ==
    IF opt = None THEN None
    ELSE Some(JsonNum(IF opt[1] = "AtMostOnce" THEN 0
                      ELSE IF opt[1] = "AtLeastOnce" THEN 1 ELSE 2))

\* the channels other than name are the same in builders a and b
OtherChannelsSame(a, b, name) ==
    /\ DOMAIN b.spec.channels \ {name} = DOMAIN a.spec.channels \ {name}
    /\ \A c \in DOMAIN a.spec.channels \ {name} : b.spec.channels[c] = a.spec.channels[c]

\* C23: for every choice of optional parameters the payload of
\* KafkaProtocol::channel_binding and of MqttProtocol::channel_binding is an
\* object with the protocol identifier as its single key, whose value holds
\* each supplied parameter unchanged (MQTT qos as its numeric encoding), and
\* kafka_channel / mqtt_channel insert the channel under the given name with
\* exactly that payload as its inline bindings.
C23_BindingPayload ==
    [][calls' = calls + 1 =>
        /\ \A t \in TopicSet, p \in {None, Some(3)}, r \in {None, Some(2)} :
              builder' = kafka_channel(builder, "orders", ServedChannel, t, p, r)
              => /\ "orders" \in DOMAIN builder'.spec.channels
                 /\ ReadsBack(builder'.spec.channels["orders"], ServedChannel, "kafka",
                              [topic |-> ExpectedStr(t), partitions |-> ExpectedNum(p),
                               replicas |-> ExpectedNum(r)])
                 /\ OtherChannelsSame(builder, builder', "orders")
        /\ \A t \in TopicSet, q \in QosSet, r \in {None, Some(TRUE)} :
              builder' = mqtt_channel(builder, "orders", ServedChannel, t, q, r)
              => /\ "orders" \in DOMAIN builder'.spec.channels
                 /\ ReadsBack(builder'.spec.channels["orders"], ServedChannel, "mqtt",
                              [topic |-> ExpectedStr(t), qos |-> ExpectedQos(q),
                               retain |-> ExpectedBool(r)])
                 /\ OtherChannelsSame(builder, builder', "orders")]_vars

\* the builder holds the Kafka channel of the scenario: topic "orders",
\* partitions 3, replicas 2
C23_Witness ==
    /\ "orders" \in DOMAIN builder.spec.channels
    /\ ReadsBack(builder.spec.channels["orders"], ServedChannel, "kafka",
                 [topic |-> Some(JsonStr("orders")), partitions |-> Some(JsonNum(3)),
                  replicas |-> Some(JsonNum(2))])

\* the channels of d whose bindings are a reference
RefBoundChannels(d) ==
    {c \in DOMAIN d.channels :
        d.channels[c].bindings # None /\ d.channels[c].bindings[1].tag = "Ref"}

\* C24: for every valid document d, parsing the serialized form of d
\* reproduces an equivalent document, with the same field values and the same
\* reference strings; every inline-or-reference field decodes to the variant
\* it was encoded from.
C24_RoundTrip ==
    conv.pc = "parsed" => conv.out = Some(doc)

\* what the codec does: the parsed document is the original one except that a
\* channel's bindings reference comes back as inline bindings holding the
\* object {"$ref": path}; channel messages keep their variant and path
C24_RoundTripAsCoded ==
    conv.pc = "parsed"
    => /\ conv.out # None
       /\ conv.out[1] =
            [doc EXCEPT !.channels =
                [c \in DOMAIN doc.channels |->
                    IF c \in RefBoundChannels(doc)
                    THEN [doc.channels[c] EXCEPT !.bindings =
                            InlineBindings(ser_MessageReference(
                                doc.channels[c].bindings[1].ref_path))]
                    ELSE doc.channels[c]]]
       /\ RefBoundChannels(doc) = {} => conv.out = Some(doc)

\* the entries that refer to a component message carrying a message-id
IdRefEntries(d) ==
    {e \in RefEntries(d) :
        /\ IsComponentPath(EntryOf(d, e).ref_path)
        /\ EntryOf(d, e).ref_path[4] \in DOMAIN ComponentMap(d)
        /\ ComponentMap(d)[EntryOf(d, e).ref_path[4]].message_id # None}

\* C25: reference entries in channel message maps contribute no message-id
\* to the duplicate check: duplicate-message-id always names an id shared by
\* two distinct messages (inline channel messages or component messages), so
\* a document in which one or several channels reference the same component
\* message, with no other message sharing its id, is never rejected with
\* duplicate-message-id and validates when it is otherwise well-formed.
C25_RefsCarryNoId ==
    Done
    => /\ result.kind = "DuplicateMessageId"
            => \E o1, o2 \in Occurrences(doc) :
                  /\ o1 # o2
                  /\ MessageAt(doc, o1).message_id = <<result.arg[1]>>
                  /\ MessageAt(doc, o2).message_id = <<result.arg[1]>>
       /\ (IdRefEntries(doc) # {} /\ ~DuplicateIds(doc))
            => result.kind # "DuplicateMessageId"
       /\ (IdRefEntries(doc) # {} /\ WellFormed(doc)) => result = Ok

\* two channels reference the same component message, which carries an id,
\* and the document validates
C25_Witness ==
    /\ Done /\ result = Ok
    /\ \E e1, e2 \in IdRefEntries(doc) :
          e1[1] # e2[1] /\ EntryOf(doc, e1).ref_path = EntryOf(doc, e2).ref_path

\* the channel names the builder's channel map does not hold
AbsentChannels == BuilderChannelNames \ DOMAIN builder.spec.channels

\* C26: channel_message and channel_message_ref called with a channel name
\* that is not in the builder's channel map leave the builder's document
\* unchanged: no channel is created and the message or reference is dropped,
\* so adding the message before the channel and after it build different
\* documents.
C26_AbsentChannelNoOp ==
    pc = "building"
    => \A n \in AbsentChannels :
          /\ channel_message_ref(builder, n, "Shared", "c1") = builder
          /\ \A msg \in BuilderMessageSet :
                /\ channel_message(builder, n, "Other", msg) = builder
                /\ \A ch \in BuilderChannelSet :
                      build(channel(channel_message(builder, n, "Other", msg), n, ch))
                          # build(channel_message(channel(builder, n, ch), n, "Other", msg))

\* one call has been chained on the new builder and has changed nothing:
\* only channel_message and channel_message_ref, naming a channel the empty
\* channel map does not hold, do that
C26_Witness ==
    /\ pc = "building" /\ calls = 1 /\ builder = new
    /\ AbsentChannels = BuilderChannelNames
    /\ \E msg \in BuilderMessageSet :
          channel_message(builder, "events", "Other", msg) = builder

\* after the step the builder holds, under name, a channel with the messages
\* and servers of ch and nothing of what was under the name before, and the
\* other channels are as they were
Replaced(name, ch) ==
    /\ name \in DOMAIN builder'.spec.channels
    /\ builder'.spec.channels[name].messages = ch.messages
    /\ builder'.spec.channels[name].servers = ch.servers
    /\ OtherChannelsSame(builder, builder', name)

\* the message names channel_message and channel_message_ref add
AddedNames == {"Other", "Shared"}

\* C27: inserting a channel (channel, channel_with_params,
\* channel_with_bindings, channel_with_bindings_ref, kafka_channel,
\* mqtt_channel) under a name already present replaces the whole existing
\* channel: messages added earlier to that name are discarded, the channel's
\* content is always an inserted Channel value plus only messages added
\* afterwards, and all other channels are unchanged.
C27_InsertReplaces ==
    /\ [](\A n \in DOMAIN builder.spec.channels :
            \E ch \in BuilderChannelSet :
                /\ builder.spec.channels[n].servers = ch.servers
                /\ DOMAIN builder.spec.channels[n].messages \ AddedNames
                       = DOMAIN ch.messages
                /\ \A m \in DOMAIN ch.messages :
                       builder.spec.channels[n].messages[m] = ch.messages[m])
    /\ [][calls' = calls + 1 =>
            /\ \A n \in BuilderChannelNames, ch \in BuilderChannelSet :
                  builder' = channel(builder, n, ch)
                  => Replaced(n, ch) /\ builder'.spec.channels[n] = ch
            /\ builder' = channel_with_params(builder, "events", EventChannel,
                                               [x \in {"id"} |-> [location |-> None]])
                  => Replaced("events", EventChannel)
            /\ \A b \in BuilderBindingsSet :
                  builder' = channel_with_bindings(builder, "events", EventChannel, b)
                  => Replaced("events", EventChannel)
            /\ builder' = channel_with_bindings_ref(builder, "events", EventChannel, "cb")
                  => Replaced("events", EventChannel)
            /\ \A t \in TopicSet, p \in {None, Some(3)}, r \in {None, Some(2)} :
                  builder' = kafka_channel(builder, "orders", ServedChannel, t, p, r)
                  => Replaced("orders", ServedChannel)
            /\ \A t \in TopicSet, q \in QosSet, r \in {None, Some(TRUE)} :
                  builder' = mqtt_channel(builder, "orders", ServedChannel, t, q, r)
                  => Replaced("orders", ServedChannel)]_vars

\* a message added to "events" through channel_message has been discarded
\* by a later insertion under that name
C27_Witness ==
    /\ <<"events", "Other">> \in discarded
    /\ "events" \in DOMAIN builder.spec.channels
    /\ "Other" \notin DOMAIN builder.spec.channels["events"].messages

\* the channels that list servers of different protocols
MixedProtocolChannels(d) ==
    {c \in DOMAIN d.channels :
        /\ d.channels[c].servers # None
        /\ \E i, j \in DOMAIN d.channels[c].servers[1] :
              /\ d.channels[c].servers[1][i] \in DOMAIN ServerMap(d)
              /\ d.channels[c].servers[1][j] \in DOMAIN ServerMap(d)
              /\ ServerMap(d)[d.channels[c].servers[1][i]].protocol
                    # ServerMap(d)[d.channels[c].servers[1][j]].protocol}

\* the result is the bindings error
BindingsError == result.kind = "InvalidSchema" /\ result.arg[1] = "bindings"

\* C28: the effective protocol used for a channel's binding check is the
\* protocol of the first server, in the order of the channel's server list,
\* that the document's server map holds; a channel with no server list or an
\* empty one is not binding-checked at all; and for a channel listing servers
\* of different protocols only the first listed server's protocol key is
\* required in the bindings.
C28_EffectiveProtocol ==
    /\ \A c \in DOMAIN doc.channels :
          /\ get_channel_protocol(doc.channels[c], doc) = EffectiveProtocol(doc, c)
          /\ (doc.channels[c].servers \in {None, Some(<<>>)})
               => get_channel_protocol(doc.channels[c], doc) = None
    /\ (Done /\ BindingsError)
         => /\ result.arg[2] \in DOMAIN doc.channels
            /\ doc.channels[result.arg[2]].servers \notin {None, Some(<<>>)}
            /\ EffectiveProtocol(doc, result.arg[2]) = Some(result.arg[3])
            /\ ServerMap(doc)[doc.channels[result.arg[2]].servers[1][1]].protocol
                  = result.arg[3]
    /\ (Done /\ \A c \in DOMAIN doc.channels :
                    /\ doc.channels[c].bindings # None => HasInlineBindings(doc, c)
                    /\ c \in BoundChannels(doc) => BindingsKeyPresent(doc, c))
         => ~BindingsError

\* a channel lists a kafka server first and an mqtt server second, its
\* bindings hold only the kafka key, and the document validates
C28_Witness ==
    /\ Done /\ result = Ok
    /\ \E c \in MixedProtocolChannels(doc) :
          /\ EffectiveProtocol(doc, c) = Some("kafka")
          /\ HasInlineBindings(doc, c)
          /\ doc.channels[c].bindings[1].value = JsonObject({"kafka"})
          /\ \E i \in DOMAIN doc.channels[c].servers[1] :
                ServerMap(doc)[doc.channels[c].servers[1][i]].protocol = "mqtt"

\* thread t holds the read lock, the write lock
HoldsRead(t) == t \in SCHEMA_CACHE.readers
HoldsWrite(t) == SCHEMA_CACHE.writer = Some(t)

\* C29: a generate_schema call never holds the read or the write lock while
\* the generator runs, holds at most one lock at a time, and has released the
\* read lock before it requests the write lock; no interleaving of concurrent
\* calls deadlocks, and under fair scheduling every call eventually returns
\* (a thread is always back between calls at some later point).
C29_LockDiscipline ==
    /\ [](\A t \in Threads :
            /\ thread[t].pc = "generate" => ~HoldsRead(t) /\ ~HoldsWrite(t)
            /\ ~(HoldsRead(t) /\ HoldsWrite(t))
            /\ thread[t].pc = "write_lock" => ~HoldsRead(t) /\ ~HoldsWrite(t)
            /\ HoldsRead(t) <=> thread[t].pc = "lookup"
            /\ HoldsWrite(t) <=> thread[t].pc \in {"insert", "inserting"})
    /\ []((\E t \in Threads : thread[t].pc # "idle")
            => \E t \in Threads : thread[t].pc # "idle" /\ ENABLED Step(t))
    /\ \A t \in Threads : []<>(thread[t].pc = "idle")

\* both threads have missed for the same type and wait for the write lock
\* while neither holds a lock
C29_Witness ==
    /\ \A t \in Threads : thread[t].pc = "write_lock" /\ thread[t].type_id = "TestStruct1"
    /\ SCHEMA_CACHE.readers = {} /\ SCHEMA_CACHE.writer = None

\* operations whose channel reference names a channel the document lacks, or
\* with a channel-scoped message reference to a channel or message it lacks
DanglingOps(d) ==
    {o \in DOMAIN OperationMap(d) :
        LET op == OperationMap(d)[o]
        IN  \/ /\ HasPrefix(op.channel, <<"#", "channels">>)
               /\ ~(Len(op.channel) = 3 /\ op.channel[3] \in DOMAIN d.channels)
            \/ \E i \in DOMAIN op.messages :
                  /\ HasPrefix(op.messages[i], <<"#", "channels">>)
                  /\ ~(/\ Len(op.messages[i]) = 5
                       /\ op.messages[i][4] = "messages"
                       /\ op.messages[i][3] \in DOMAIN d.channels
                       /\ op.messages[i][5] \in
                              DOMAIN d.channels[op.messages[i][3]].messages)}

\* channel maps to exchange the document's channels for: none, and one that
\* holds the channel and the message the dangling references name
OtherChannelMaps ==
    {<<>>,
     [x \in {"zz"} |-> Chan([y \in {"m9"} |-> Inline(PlainMessage)], None, None)]}

\* C30: the operation stage does not resolve channel-scoped references: its
\* outcome is the same whatever channels and channel messages the document
\* holds, an error of the stage arises only from a wrong path prefix or an
\* unresolved component reference, and a document whose only flaw is an
\* operation referring to an absent channel or channel message is accepted.
C30_ChannelRefsUnresolved ==
    /\ (Done /\ IsSome(doc.operations))
         => \A order \in Perms(DOMAIN Unwrap(doc.operations)),
               chs \in OtherChannelMaps :
               validate_operations(doc, Unwrap(doc.operations), order, 1)
                 = validate_operations([doc EXCEPT !.channels = chs],
                                       Unwrap(doc.operations), order, 1)
    /\ (Done /\ StageOfResult(doc, result) = StageOperations) => ~OperationsOk(doc)
    /\ (Done /\ DanglingOps(doc) # {} /\ ViolatedStages(doc) = {}) => result = Ok

\* a validated document is accepted although an operation refers to the
\* absent channel "zz" and to a message of it
C30_Witness ==
    /\ Done /\ result = Ok
    /\ \E o \in DanglingOps(doc) :
          /\ OperationMap(doc)[o].channel = <<"#", "channels", "zz">>
          /\ OperationMap(doc)[o].messages = <<<<"#", "channels", "zz", "messages", "m9">>>>
    /\ "zz" \notin DOMAIN doc.channels

====
